---- MODULE Spec2Model ----
(***************************************************************************)
(* Discarr: the queue cache / refresh orchestrator (CacheManager) and the  *)
(* progress history store with its stall detector (ProgressTracker).       *)
(*                                                                         *)
(* Time is an integer clock `now` (the value time.time() returns).  The    *)
(* tracker's two windows are kept in clock units: cfg.stuck_threshold is   *)
(* stuck_threshold_minutes * 60 and cfg.progress_history is                *)
(* progress_history_hours * 3600 of the source.  A snapshot keeps the      *)
(* fields the tracker computes with (timestamp, progress_percent,          *)
(* size_left, status); title, download_client and protocol are carried     *)
(* through unchanged by the source and are left out.                       *)
(***************************************************************************)
EXTENDS Integers, Sequences, FiniteSets, TLC

VARIABLES
    now,              \* the wall clock, time.time()
    cfg,              \* ProgressTracker's configuration fields
    progress_history, \* ProgressTracker.progress_history: download id -> snapshots
    cleaned,          \* ids the record_progress_snapshot call of this step deleted (its debug log)
    raised,           \* whether the record_progress_snapshot call of this step raised
    stuck_downloads,  \* whether this step was an analyze_stuck_downloads call, and what it returned
    queue,            \* CacheManager.movie_queue ("radarr") and tv_queue ("sonarr")
    loaded,           \* CacheManager.radarr_loaded and sonarr_loaded
    last_refresh,     \* CacheManager.last_refresh
    mode,             \* which refresh path runs: mock clients, real clients in a thread, asyncio task
    pc,               \* position of the refresh loop
    current_time,     \* refresh_data's local current_time
    result,           \* per service, what get_queue_items did in the current cycle
    streak,           \* per download id, the count NextStreak keeps over the finished cycles
    running,          \* CacheManager._running
    loops,            \* the background loops (threads or tasks) created so far, by slot
    handle,           \* the slot _fetch_thread / _refresh_task refers to, 0 for None
    caller,           \* the thread that calls the public methods: its call and its locals
    monitor,          \* DownloadMonitor's fields, its two loop tasks and its clients' sessions
    pagination,       \* PaginationManager's fields and what handle_button last returned
    client            \* a MediaClient: its caches, its pending requests and its callers

vars == <<now, cfg, progress_history, cleaned, raised, stuck_downloads, queue, loaded,
          last_refresh, mode, pc, current_time, result, streak, running, loops, handle,
          caller, monitor, pagination, client>>

\* The state of the background loops and of the calling thread.
threads == <<running, loops, handle, caller>>

\* The objects beside the cache manager and its tracker.
components == <<monitor, pagination, client>>

-----------------------------------------------------------------------------
(* Bounds of the model *)

MaxTime == 3
StuckThreshold == 1
HistoryWindow == 1
MaxSnapshots == 3
MinProgressChange == 2
MinSizeChange == 2
RefreshInterval == 1

-----------------------------------------------------------------------------
(* Values *)

Services == {"radarr", "sonarr"}

ItemIds == {1, 2}

Modes == {"sync_mock", "sync_real", "async"}

\* stuck_downloads while no analyze_stuck_downloads call has just returned.
NotRun == [ran |-> FALSE, found |-> {}]

\* Normalised queue items as the clients build them: download 1 not moving
\* and completed; download 2.
ItemStalled == [id |-> 1, progress |-> 0, sizeleft |-> 2, status |-> "downloading"]
ItemDone    == [id |-> 1, progress |-> 2, sizeleft |-> 0, status |-> "completed"]
ItemOther   == [id |-> 2, progress |-> 0, sizeleft |-> 2, status |-> "downloading"]

\* An element of a returned list that is no dict (item.get raises on it).
NonDictItem == [nondict |-> TRUE]

IsDict(item) == "nondict" \notin DOMAIN item

\* The lists get_queue_items returns in the refresh cycle.
QueueLists ==
    { <<>>, <<ItemStalled>>, <<ItemStalled, ItemOther>>, <<NonDictItem>> }

\* The lists record_progress_snapshot is called with directly, per service.
RecordLists(service_type) ==
    IF service_type = "radarr"
    THEN { <<>>, <<ItemStalled>>, <<ItemDone>>, <<ItemStalled, ItemOther>>,
           <<ItemStalled, ItemDone>>, <<ItemOther, NonDictItem>> }
    ELSE { <<>>, <<ItemStalled>>, <<ItemOther, NonDictItem>> }

WellFormed(items) == \A i \in 1..Len(items) : IsDict(items[i])

-----------------------------------------------------------------------------
(* ProgressTracker *)

Abs(x) == IF x < 0 THEN -x ELSE x

\* dict.get(key, default)
ItemGet(item, key, default) == IF key \in DOMAIN item THEN item[key] ELSE default

\* f"{service_type}_{item.get('id', 0)}" ; split('_', 1) recovers both parts
DownloadId(service_type, id) == <<service_type, id>>

\* The mutation of ProgressSnapshot whose default status is 'downloading'.
ProgressSnapshotActiveDefault(item, t) ==
    [timestamp        |-> t,
     progress_percent |-> ItemGet(item, "progress", 0),
     size_left        |-> ItemGet(item, "sizeleft", 0),
     status           |-> ItemGet(item, "status", "downloading")]

ProgressSnapshot(item, t) ==
    [timestamp        |-> t,
     progress_percent |-> ItemGet(item, "progress", 0),
     size_left        |-> ItemGet(item, "sizeleft", 0),
     status           |-> ItemGet(item, "status", "unknown")]

\* snapshots[-n:]
LastN(snapshots, n) ==
    IF n = 0 \/ Len(snapshots) <= n THEN snapshots
    ELSE SubSeq(snapshots, Len(snapshots) - n + 1, Len(snapshots))

\* The mutation of AppendSnapshot that never trims.
AppendSnapshotNoTrim(history, download_id, snapshot, max) ==
    LET old == IF download_id \in DOMAIN history THEN history[download_id] ELSE <<>>
    IN [d \in DOMAIN history \cup {download_id} |->
            IF d = download_id THEN Append(old, snapshot) ELSE history[d]]

\* Lines 68-76: create the entry if new, append, keep the last max snapshots.
AppendSnapshot(history, download_id, snapshot, max) ==
    LET old      == IF download_id \in DOMAIN history THEN history[download_id] ELSE <<>>
        appended == Append(old, snapshot)
        kept     == IF Len(appended) > max THEN LastN(appended, max) ELSE appended
    IN [d \in DOMAIN history \cup {download_id} |->
            IF d = download_id THEN kept ELSE history[d]]

\* The for loop of record_progress_snapshot.  It stops at the first item that
\* is no dict, where item.get raises, with the earlier items already appended.
RECURSIVE RecordItems(_, _, _, _, _, _)
RecordItems(history, active, items, service_type, t, max) ==
    IF items = <<>> THEN [history |-> history, active |-> active, raised |-> FALSE]
    ELSE IF ~IsDict(Head(items)) THEN [history |-> history, active |-> active, raised |-> TRUE]
    ELSE LET download_id == DownloadId(service_type, ItemGet(Head(items), "id", 0))
         IN RecordItems(AppendSnapshot(history, download_id, ProgressSnapshot(Head(items), t), max),
                        active \cup {download_id}, Tail(items), service_type, t, max)

\* The mutation of InactiveIds with the set difference reversed.
InactiveIdsReversed(history, active_download_ids) == active_download_ids \ DOMAIN history

\* The ids _cleanup_inactive_downloads deletes: every key that is not active.
InactiveIds(history, active_download_ids) == DOMAIN history \ active_download_ids

\* The mutation of CleanupInactiveDownloads that empties the entries of the
\* inactive downloads and keeps their keys.
CleanupInactiveDownloadsEmptied(history, active_download_ids) ==
    [d \in DOMAIN history |-> IF d \in active_download_ids THEN history[d] ELSE <<>>]

CleanupInactiveDownloads(history, active_download_ids) ==
    [d \in DOMAIN history \ InactiveIds(history, active_download_ids) |-> history[d]]

\* The mutation of RecentOrLastTwo that keeps the recent snapshots only.
RecentOnly(snapshots, cutoff_time) ==
    LET Recent(s) == s.timestamp >= cutoff_time
    IN SelectSeq(snapshots, Recent)

\* Lines 102-106 for one entry.
RecentOrLastTwo(snapshots, cutoff_time) ==
    LET Recent(s) == s.timestamp >= cutoff_time
        recent_snapshots == SelectSeq(snapshots, Recent)
    IN IF Len(recent_snapshots) < 2 /\ Len(snapshots) >= 2
       THEN LastN(snapshots, 2) ELSE recent_snapshots

CleanupOldSnapshots(history, t, window) ==
    [d \in DOMAIN history |-> RecentOrLastTwo(history[d], t - window)]

\* record_progress_snapshot: the new history, the ids it cleaned, and whether
\* it raised (in which case neither cleanup ran).
RecordProgressSnapshot(history, download_items, service_type, t, c) ==
    LET r == RecordItems(history, {}, download_items, service_type, t,
                         c.max_snapshots_per_download)
    IN IF r.raised
       THEN [history |-> r.history, cleaned |-> {}, raised |-> TRUE]
       ELSE [history |-> CleanupOldSnapshots(CleanupInactiveDownloads(r.history, r.active),
                                             t, c.progress_history),
             cleaned |-> InactiveIds(r.history, r.active),
             raised  |-> FALSE]

\* The mutation of IsStuck that is satisfied by either change being small.
IsStuckEitherSmall(oldest_snapshot, newest_snapshot, c) ==
    /\ newest_snapshot.timestamp - oldest_snapshot.timestamp >= c.stuck_threshold
    /\ \/ Abs(newest_snapshot.progress_percent - oldest_snapshot.progress_percent) < c.min_progress_change
       \/ Abs(oldest_snapshot.size_left - newest_snapshot.size_left) < c.min_size_change
    /\ newest_snapshot.status \in {"downloading", "queued"}

\* The mutation of IsStuck that asks for a span above the threshold.
IsStuckStrictSpan(oldest_snapshot, newest_snapshot, c) ==
    /\ newest_snapshot.timestamp - oldest_snapshot.timestamp > c.stuck_threshold
    /\ Abs(newest_snapshot.progress_percent - oldest_snapshot.progress_percent) < c.min_progress_change
    /\ Abs(oldest_snapshot.size_left - newest_snapshot.size_left) < c.min_size_change
    /\ newest_snapshot.status \in {"downloading", "queued"}

\* Lines 155-165: the is_stuck decision over the window's oldest and newest snapshot.
IsStuck(oldest_snapshot, newest_snapshot, c) ==
    /\ newest_snapshot.timestamp - oldest_snapshot.timestamp >= c.stuck_threshold
    /\ Abs(newest_snapshot.progress_percent - oldest_snapshot.progress_percent) < c.min_progress_change
    /\ Abs(oldest_snapshot.size_left - newest_snapshot.size_left) < c.min_size_change
    /\ newest_snapshot.status \in {"downloading", "queued"}

\* The mutation of AnalyzeDownloadProgress that compares the oldest and the
\* newest snapshot of the whole entry.
AnalyzeDownloadProgressWholeEntry(download_id, snapshots, t, c) ==
    IF Len(snapshots) < 2 THEN {}
    ELSE LET oldest_snapshot == snapshots[1]
             newest_snapshot == snapshots[Len(snapshots)]
         IN IF IsStuck(oldest_snapshot, newest_snapshot, c)
            THEN {[download_id      |-> download_id,
                   service          |-> download_id[1],
                   id               |-> download_id[2],
                   status           |-> newest_snapshot.status,
                   progress_percent |-> newest_snapshot.progress_percent,
                   size_left        |-> newest_snapshot.size_left,
                   stuck_duration   |-> newest_snapshot.timestamp - oldest_snapshot.timestamp,
                   progress_change  |-> Abs(newest_snapshot.progress_percent
                                            - oldest_snapshot.progress_percent),
                   size_change      |-> Abs(oldest_snapshot.size_left
                                            - newest_snapshot.size_left)]}
            ELSE {}

\* _analyze_download_progress: the set holding the stuck info, or the empty set (None).
AnalyzeDownloadProgress(download_id, snapshots, t, c) ==
    LET threshold_time == t - c.stuck_threshold
        Recent(s) == s.timestamp >= threshold_time
        recent_snapshots == SelectSeq(snapshots, Recent)
    IN IF Len(recent_snapshots) < 2 THEN {}
       ELSE LET oldest_snapshot == recent_snapshots[1]
                newest_snapshot == recent_snapshots[Len(recent_snapshots)]
            IN IF IsStuck(oldest_snapshot, newest_snapshot, c)
               THEN {[download_id      |-> download_id,
                      service          |-> download_id[1],
                      id               |-> download_id[2],
                      status           |-> newest_snapshot.status,
                      progress_percent |-> newest_snapshot.progress_percent,
                      size_left        |-> newest_snapshot.size_left,
                      stuck_duration   |-> newest_snapshot.timestamp - oldest_snapshot.timestamp,
                      progress_change  |-> Abs(newest_snapshot.progress_percent
                                               - oldest_snapshot.progress_percent),
                      size_change      |-> Abs(oldest_snapshot.size_left
                                               - newest_snapshot.size_left)]}
               ELSE {}

\* The mutation of AnalyzeStuckDownloads that also analyses an entry of one
\* snapshot, comparing the snapshot with itself.
AnalyzeStuckDownloadsFromOne(history, t, c) ==
    LET FromOne(d) ==
           LET only == history[d][1]
           IN IF only.timestamp >= t - c.stuck_threshold /\ IsStuck(only, only, c)
              THEN {[download_id      |-> d,
                     service          |-> d[1],
                     id               |-> d[2],
                     status           |-> only.status,
                     progress_percent |-> only.progress_percent,
                     size_left        |-> only.size_left,
                     stuck_duration   |-> 0,
                     progress_change  |-> 0,
                     size_change      |-> 0]}
              ELSE {}
    IN UNION { IF Len(history[d]) = 1 THEN FromOne(d)
               ELSE AnalyzeDownloadProgress(d, history[d], t, c) :
                  d \in { e \in DOMAIN history : Len(history[e]) >= 1 } }

\* analyze_stuck_downloads, as the set of the infos it returns (the order of
\* the returned list is the dict's and no caller relies on it).
AnalyzeStuckDownloads(history, t, c) ==
    UNION { AnalyzeDownloadProgress(d, history[d], t, c) :
                d \in { e \in DOMAIN history : Len(history[e]) >= 2 } }

\* 1024 * 1024, the bytes of a MB in _calculate_download_speeds.
BytesPerMB == 1048576

\* round(num / den, 1), in tenths; a tie goes to the even tenth.
RoundTenths(num, den) ==
    LET q == (10 * num) \div den
        r == (10 * num) % den
    IN IF 2 * r < den THEN q
       ELSE IF 2 * r > den THEN q + 1
       ELSE IF q % 2 = 0 THEN q ELSE q + 1

\* The mutation of SampleTaken that skips the pairs one clock unit apart.
SampleTakenApart(prev_snapshot, curr_snapshot) ==
    /\ curr_snapshot.timestamp - prev_snapshot.timestamp > 1
    /\ prev_snapshot.size_left - curr_snapshot.size_left > 0

\* Lines 273-280: the pair passes both tests (neither continue is taken).
SampleTaken(prev_snapshot, curr_snapshot) ==
    /\ curr_snapshot.timestamp - prev_snapshot.timestamp > 0
    /\ prev_snapshot.size_left - curr_snapshot.size_left > 0

\* speed_mbps of a pair, kept exact as bytes_downloaded over time_diff: the
\* speed is bytes / BytesPerMB / seconds MB/s.
SpeedSample(prev_snapshot, curr_snapshot) ==
    [bytes   |-> prev_snapshot.size_left - curr_snapshot.size_left,
     seconds |-> curr_snapshot.timestamp - prev_snapshot.timestamp]

\* speed_mbps > 0
SpeedPositive(speed) == speed.bytes > 0 /\ speed.seconds > 0

\* The inner loop of _calculate_download_speeds from index i on.
RECURSIVE SpeedsOf(_, _)
SpeedsOf(snapshots, i) ==
    IF i > Len(snapshots) THEN <<>>
    ELSE LET speed == SpeedSample(snapshots[i - 1], snapshots[i])
         IN (IF SampleTaken(snapshots[i - 1], snapshots[i]) /\ SpeedPositive(speed)
             THEN <<speed>> ELSE <<>>) \o SpeedsOf(snapshots, i + 1)

\* _calculate_download_speeds over the entries ids, in the order the dict
\* yields them (any order; CHOOSE fixes one).
RECURSIVE SpeedsOver(_, _)
SpeedsOver(history, ids) ==
    IF ids = {} THEN <<>>
    ELSE LET d == CHOOSE e \in ids : TRUE
         IN (IF Len(history[d]) < 2 THEN <<>> ELSE SpeedsOf(history[d], 2))
               \o SpeedsOver(history, ids \ {d})

CalculateDownloadSpeeds(history) == SpeedsOver(history, DOMAIN history)

\* a is not faster than b.
NotFaster(a, b) == a.bytes * b.seconds <= b.bytes * a.seconds

\* min(speeds) and max(speeds) of a list that is not empty.
MinSpeed(speeds) ==
    speeds[CHOOSE i \in 1..Len(speeds) : \A j \in 1..Len(speeds) : NotFaster(speeds[i], speeds[j])]

MaxSpeed(speeds) ==
    speeds[CHOOSE i \in 1..Len(speeds) : \A j \in 1..Len(speeds) : NotFaster(speeds[j], speeds[i])]

\* The mutation of TotalSnapshots that counts the entries.
TotalSnapshotsAsEntries(history, ids) == Cardinality(ids)

\* sum(len(snapshots) for snapshots in self.progress_history.values())
RECURSIVE TotalSnapshots(_, _)
TotalSnapshots(history, ids) ==
    IF ids = {} THEN 0
    ELSE LET d == CHOOSE e \in ids : TRUE
         IN Len(history[d]) + TotalSnapshots(history, ids \ {d})

\* get_statistics; the four rounded fields are in tenths.
GetStatistics(history) ==
    LET total_downloads == Cardinality(DOMAIN history)
        total_snapshots == TotalSnapshots(history, DOMAIN history)
        speeds          == CalculateDownloadSpeeds(history)
    IN IF total_downloads = 0
       THEN [total_downloads            |-> 0,
             total_snapshots            |-> 0,
             avg_snapshots_per_download |-> 0,
             memory_usage_estimate_kb   |-> 0,
             min_download_speed_mbps    |-> 0,
             max_download_speed_mbps    |-> 0]
       ELSE [total_downloads            |-> total_downloads,
             total_snapshots            |-> total_snapshots,
             avg_snapshots_per_download |-> RoundTenths(total_snapshots, total_downloads),
             memory_usage_estimate_kb   |-> RoundTenths(total_snapshots * 100, 1024),
             min_download_speed_mbps    |->
                 IF speeds # <<>>
                 THEN RoundTenths(MinSpeed(speeds).bytes, BytesPerMB * MinSpeed(speeds).seconds)
                 ELSE 0,
             max_download_speed_mbps    |->
                 IF speeds # <<>>
                 THEN RoundTenths(MaxSpeed(speeds).bytes, BytesPerMB * MaxSpeed(speeds).seconds)
                 ELSE 0]

-----------------------------------------------------------------------------
(* CacheManager: the refresh cycle *)

AllDownloadIds == { DownloadId(s, i) : s \in Services, i \in ItemIds }

Pending == [kind |-> "pending", items |-> <<>>]

\* What one get_queue_items call can do: return a list, return None, return
\* a value that is no list, raise, or never return.
FetchResults ==
    { [kind |-> "list", items |-> q] : q \in QueueLists }
    \cup { [kind |-> k, items |-> <<>>] : k \in {"none", "notlist", "error", "hang"} }

\* The call returned a list of queue items (None stands for the empty list).
Succeeded(r) == r.kind \in {"list", "none"} /\ WellFormed(r.items)

Listed(r, id) ==
    \E i \in 1..Len(r.items) : IsDict(r.items[i]) /\ ItemGet(r.items[i], "id", 0) = id

\* The other of the two services.
Other(s) == CHOOSE o \in Services : o # s

\* _sync_refresh_data / _async_refresh_data: radarr first, then sonarr.
AfterService(s) ==
    IF s = "radarr" THEN [phase |-> "refresh", service |-> "sonarr"]
    ELSE [phase |-> "finish", service |-> "sonarr"]

\* The mutation of SkipRefresh that looks at the time only.
SkipRefreshWhenRecent(t) == t - last_refresh < RefreshInterval

\* The guard of refresh_data_sync and _refresh_data_async that returns early.
SkipRefresh(t) ==
    t - last_refresh < RefreshInterval /\ loaded["radarr"] /\ loaded["sonarr"]

\* A background loop that does not run, and a calling thread outside any call.
NoLoop == [phase |-> "dead"]

NoCall == [op |-> "none"]

\* __init__: _running = False, _fetch_thread = _refresh_task = None.
NoThreads ==
    /\ running = FALSE
    /\ loops = <<NoLoop>>
    /\ handle = 0
    /\ caller = NoCall

\* DownloadMonitor.__init__: not running, no channel, no task; the sessions
\* of its two clients are open.
NewMonitor ==
    [running |-> FALSE, channel |-> FALSE, task |-> "none", health_task |-> "none",
     closed |-> {}, raised |-> FALSE]

\* The default of items_per_page.
ITEMS_PER_PAGE == 3

\* PaginationManager.__init__(items_per_page), beside the model's record of
\* the last call: its name, the counts of the last update_page_limits, and
\* what handle_button returned.
NewPagination(items_per_page) ==
    [items_per_page |-> items_per_page, movie_current_page |-> 1, tv_current_page |-> 1,
     last_movie_page |-> 1, last_tv_page |-> 1,
     call |-> "init", movie_count |-> 0, tv_count |-> 0, changed |-> FALSE]

\* The tasks that call one client at a time.
MaxCallers == 2

\* A task outside _make_request.  joined: its call found the request pending.
NotCalling == [phase |-> "idle", key |-> "", outcome |-> "none", joined |-> FALSE]

\* No get_movie_by_id call has returned.
NoReturn == [called |-> FALSE]

\* MediaClient.__init__ and RadarrClient's: empty caches, nothing pending.
\* callers and returned are the model's record of the calls.
NewClient ==
    [cache |-> << >>, cache_timestamps |-> << >>, movie_cache |-> << >>,
     pending_requests |-> {},
     callers |-> [c \in 1..MaxCallers |-> NotCalling], returned |-> NoReturn]

NoComponents ==
    /\ monitor = NewMonitor
    /\ pagination = NewPagination(ITEMS_PER_PAGE)
    /\ client = NewClient

TrackerConfig ==
    [stuck_threshold            |-> StuckThreshold,
     min_progress_change        |-> MinProgressChange,
     min_size_change            |-> MinSizeChange,
     progress_history           |-> HistoryWindow,
     max_snapshots_per_download |-> MaxSnapshots]

Init ==
    /\ now = RefreshInterval
    /\ cfg = TrackerConfig
    /\ NoComponents
    /\ progress_history = << >>
    /\ cleaned = {}
    /\ raised = FALSE
    /\ stuck_downloads = NotRun
    /\ queue = [s \in Services |-> <<>>]
    /\ loaded = [s \in Services |-> FALSE]
    /\ last_refresh = 0
    /\ mode \in Modes
    /\ pc = [phase |-> "idle", service |-> "radarr"]
    /\ current_time = 0
    /\ result = [s \in Services |-> Pending]
    /\ streak = [d \in AllDownloadIds |-> 0]
    /\ NoThreads

\* The outputs of a step are read by its caller before the next step.
NoOutput == cleaned' = {} /\ raised' = FALSE /\ stuck_downloads' = NotRun

\* One clock unit passes.  In the refresh loop the clock is read where the
\* loop waits between cycles (or is stuck in one).
Tick ==
    /\ now < MaxTime
    /\ pc.phase \in {"sleep", "skipped", "blocked"}
    /\ now' = now + 1
    /\ NoOutput
    /\ UNCHANGED <<cfg, components, progress_history, queue, loaded, last_refresh, mode, pc,
                   current_time, result, streak>>
    /\ UNCHANGED threads

\* refresh_data_sync / _refresh_data_async when the guard lets the cycle run.
BeginRefresh ==
    /\ pc.phase = "idle"
    /\ ~SkipRefresh(now)
    /\ current_time' = now
    /\ pc' = [phase |-> "refresh", service |-> "radarr"]
    /\ NoOutput
    /\ UNCHANGED <<now, cfg, components, progress_history, queue, loaded, last_refresh, mode,
                   result, streak>>
    /\ UNCHANGED threads

\* refresh_data_sync / _refresh_data_async returning early; the loop then
\* sleeps as after a cycle.
SkippedRefresh ==
    /\ pc.phase = "idle"
    /\ SkipRefresh(now)
    /\ pc' = [phase |-> "skipped", service |-> "radarr"]
    /\ NoOutput
    /\ UNCHANGED <<now, cfg, components, progress_history, queue, loaded, last_refresh, mode,
                   current_time, result, streak>>
    /\ UNCHANGED threads

\* The list branch of _refresh_<service>_data(_sync): the cached list is
\* replaced under its lock, the snapshots are recorded, get_download_updates
\* is called (its own errors are logged and dropped) and the flag is set.  An
\* exception out of the tracker skips the rest and clears the flag.
IngestList(s, items) ==
    \E r \in {RecordProgressSnapshot(progress_history, items, s, now, cfg)} :
       /\ queue' = [queue EXCEPT ![s] = items]
       /\ progress_history' = r.history
       /\ cleaned' = r.cleaned
       /\ raised' = r.raised
       /\ loaded' = [loaded EXCEPT ![s] = ~r.raised]
       /\ pc' = AfterService(s)

\* get_queue_items timed out or never returns.  With real clients
\* asyncio.wait_for cancels the call and raises TimeoutError.  With mock
\* clients the radarr call runs in an executor: future.result times out, the
\* flag is cleared, and leaving the with block joins the worker, which never
\* ends; the sonarr mock is called directly, without any timeout.
FetchHangs(s) ==
    /\ IF mode = "sync_mock"
       THEN /\ pc' = [phase |-> "blocked", service |-> s]
            /\ loaded' = IF s = "radarr" THEN [loaded EXCEPT ![s] = FALSE] ELSE loaded
       ELSE /\ pc' = AfterService(s)
            /\ loaded' = [loaded EXCEPT ![s] = FALSE]
    /\ UNCHANGED <<queue, progress_history>>
    /\ cleaned' = {}
    /\ raised' = FALSE

\* The mutation of FetchFails that also empties the cached list.
FetchFailsDropsCache(s) ==
    /\ pc' = AfterService(s)
    /\ loaded' = [loaded EXCEPT ![s] = FALSE]
    /\ queue' = [queue EXCEPT ![s] = <<>>]
    /\ UNCHANGED progress_history
    /\ cleaned' = {}
    /\ raised' = FALSE

\* get_queue_items raised: the except branch logs and clears the flag.
FetchFails(s) ==
    /\ pc' = AfterService(s)
    /\ loaded' = [loaded EXCEPT ![s] = FALSE]
    /\ UNCHANGED <<queue, progress_history>>
    /\ cleaned' = {}
    /\ raised' = FALSE

\* _refresh_radarr_data(_sync) and _refresh_sonarr_data(_sync): one attempt
\* for one service, from the get_queue_items call to the flag.
Refresh(s) ==
    /\ pc = [phase |-> "refresh", service |-> s]
    /\ \E r \in FetchResults :
        /\ result' = [result EXCEPT ![s] = r]
        /\ CASE r.kind \in {"list", "none"} -> IngestList(s, r.items)
             [] r.kind = "notlist" ->
                    \* the asyncio path clears the flag, the sync path only logs
                    /\ pc' = AfterService(s)
                    /\ loaded' = IF mode = "async" THEN [loaded EXCEPT ![s] = FALSE] ELSE loaded
                    /\ UNCHANGED <<queue, progress_history>>
                    /\ cleaned' = {}
                    /\ raised' = FALSE
             [] r.kind = "error" -> FetchFails(s)
             [] r.kind = "hang" -> FetchHangs(s)
    /\ stuck_downloads' = NotRun
    /\ UNCHANGED <<now, cfg, components, last_refresh, mode, current_time, streak>>
    /\ UNCHANGED threads

\* The cycle count of a download after a cycle with the given results: the
\* number of consecutive cycles, since the download was last absent from a
\* list its service returned, that listed it, when all of them polled both
\* services successfully; -1 when one of them did not.
NextStreak(d, count, results) ==
    IF Succeeded(results[d[1]])
    THEN IF ~Listed(results[d[1]], d[2]) THEN 0
         ELSE IF count >= 0 /\ \A s \in Services : Succeeded(results[s])
              THEN (IF count > MaxSnapshots THEN count ELSE count + 1)
              ELSE -1
    ELSE IF count = 0 /\ ~Listed(results[d[1]], d[2]) THEN 0 ELSE -1

\* The mutation of FinishRefresh that keeps last_refresh when no service
\* returned a list.
FinishRefreshOnSuccess ==
    /\ pc.phase = "finish"
    /\ last_refresh' = IF \E s \in Services : Succeeded(result[s])
                       THEN current_time ELSE last_refresh
    /\ current_time' = 0
    /\ result' = [s \in Services |-> Pending]
    /\ streak' = [d \in AllDownloadIds |-> NextStreak(d, streak[d], result)]
    /\ pc' = [phase |-> "sleep", service |-> "radarr"]
    /\ NoOutput
    /\ UNCHANGED <<now, cfg, components, progress_history, queue, loaded, mode>>
    /\ UNCHANGED threads

\* Back in refresh_data_sync / _refresh_data_async: last_refresh = current_time.
FinishRefresh ==
    /\ pc.phase = "finish"
    /\ last_refresh' = current_time
    /\ current_time' = 0
    /\ result' = [s \in Services |-> Pending]
    /\ streak' = [d \in AllDownloadIds |-> NextStreak(d, streak[d], result)]
    /\ pc' = [phase |-> "sleep", service |-> "radarr"]
    /\ NoOutput
    /\ UNCHANGED <<now, cfg, components, progress_history, queue, loaded, mode>>
    /\ UNCHANGED threads

\* The loop's sleep ends (or refresh_data is called again) and the next
\* cycle starts.
Wake ==
    /\ pc.phase \in {"sleep", "skipped"}
    /\ pc' = [phase |-> "idle", service |-> "radarr"]
    /\ NoOutput
    /\ UNCHANGED <<now, cfg, components, progress_history, queue, loaded, last_refresh, mode,
                   current_time, result, streak>>
    /\ UNCHANGED threads

Next ==
    \/ Tick
    \/ BeginRefresh
    \/ SkippedRefresh
    \/ \E s \in Services : Refresh(s)
    \/ FinishRefresh
    \/ Wake

Spec == Init /\ [][Next]_vars

-----------------------------------------------------------------------------
(* ProgressTracker on its own: any sequence of record_progress_snapshot and
   analyze_stuck_downloads calls at any times *)

TrackerInit == Init /\ mode = "sync_mock"

Elapse ==
    /\ now < MaxTime
    /\ now' = now + 1
    /\ NoOutput
    /\ UNCHANGED <<cfg, components, progress_history, queue, loaded, last_refresh, mode, pc,
                   current_time, result, streak>>
    /\ UNCHANGED threads

\* record_progress_snapshot(download_items, service_type)
Record(download_items, service_type) ==
    \E r \in {RecordProgressSnapshot(progress_history, download_items, service_type, now, cfg)} :
       /\ progress_history' = r.history
       /\ cleaned' = r.cleaned
       /\ raised' = r.raised
       /\ stuck_downloads' = NotRun
       /\ UNCHANGED <<now, cfg, components, queue, loaded, last_refresh, mode, pc, current_time,
                      result, streak>>
       /\ UNCHANGED threads

\* analyze_stuck_downloads()
Analyze ==
    /\ stuck_downloads' = [ran |-> TRUE, found |-> AnalyzeStuckDownloads(progress_history, now, cfg)]
    /\ cleaned' = {}
    /\ raised' = FALSE
    /\ UNCHANGED <<now, cfg, components, progress_history, queue, loaded, last_refresh, mode, pc,
                   current_time, result, streak>>
    /\ UNCHANGED threads

TrackerNext ==
    \/ Elapse
    \/ \E service_type \in Services : \E download_items \in RecordLists(service_type) :
            Record(download_items, service_type)
    \/ Analyze

TrackerSpec == TrackerInit /\ [][TrackerNext]_vars

-----------------------------------------------------------------------------
(* ProgressTracker under other settings: the threshold of the environment
   may be any integer, 0 included *)

TrackerConfigs ==
    { [TrackerConfig EXCEPT !.stuck_threshold = th] : th \in {0, StuckThreshold} }

SettingsInit ==
    /\ now = RefreshInterval
    /\ cfg \in TrackerConfigs
    /\ NoComponents
    /\ progress_history = << >>
    /\ cleaned = {}
    /\ raised = FALSE
    /\ stuck_downloads = NotRun
    /\ queue = [s \in Services |-> <<>>]
    /\ loaded = [s \in Services |-> FALSE]
    /\ last_refresh = 0
    /\ mode = "sync_mock"
    /\ pc = [phase |-> "idle", service |-> "radarr"]
    /\ current_time = 0
    /\ result = [s \in Services |-> Pending]
    /\ streak = [d \in AllDownloadIds |-> 0]
    /\ NoThreads

SettingsSpec == SettingsInit /\ [][TrackerNext]_vars

-----------------------------------------------------------------------------
(* The tracker under the default settings, with the clock in seconds,
   progress in tenths of a percent and sizes in bytes *)

STUCK_THRESHOLD_MINUTES == 120
MIN_PROGRESS_CHANGE == 10
MIN_SIZE_CHANGE == 104857600
PROGRESS_HISTORY_HOURS == 4
MAX_SNAPSHOTS_PER_DOWNLOAD == 50

\* CacheManager.refresh_interval, in seconds
refresh_interval == 30

\* ProgressTracker.__init__ under the default settings.
DefaultConfig ==
    [stuck_threshold            |-> STUCK_THRESHOLD_MINUTES * 60,
     min_progress_change        |-> MIN_PROGRESS_CHANGE,
     min_size_change            |-> MIN_SIZE_CHANGE,
     progress_history           |-> PROGRESS_HISTORY_HOURS * 3600,
     max_snapshots_per_download |-> MAX_SNAPSHOTS_PER_DOWNLOAD]

\* The cache manager's fields as __init__ leaves them.
CacheUnused ==
    /\ cleaned = {}
    /\ raised = FALSE
    /\ stuck_downloads = NotRun
    /\ queue = [s \in Services |-> <<>>]
    /\ loaded = [s \in Services |-> FALSE]
    /\ last_refresh = 0
    /\ mode = "sync_mock"
    /\ pc = [phase |-> "idle", service |-> "radarr"]
    /\ current_time = 0
    /\ result = [s \in Services |-> Pending]
    /\ streak = [d \in AllDownloadIds |-> 0]
    /\ NoThreads

-----------------------------------------------------------------------------
(* analyze_stuck_downloads as a function of the history and the clock *)

\* Snapshots of one download: taken at 0, 10 and 130 minutes, with progress
\* 50.0, 50.2 and 51.0 percent.
AnalysisSnapshots ==
    [timestamp        : {0, 600, 7800},
     progress_percent : {500, 502, 510},
     size_left        : {1000000000, 999900000, 895142400, 400000000},
     status           : {"downloading", "queued", "completed"}]

\* Histories record_progress_snapshot builds for one download: two snapshots
\* in the order taken, with or without an earlier one from time 0.
AnalysisHistories ==
    LET pairs == { <<a, b>> : a \in AnalysisSnapshots, b \in AnalysisSnapshots }
        first == [timestamp |-> 0, progress_percent |-> 500, size_left |-> 1000000000,
                  status |-> "downloading"]
    IN { h \in pairs \cup { <<first>> \o q : q \in pairs } :
            \A i \in 1..(Len(h) - 1) : h[i].timestamp <= h[i + 1].timestamp }

AnalysisInit ==
    /\ cfg = DefaultConfig
    /\ NoComponents
    /\ \E h \in AnalysisHistories :
          /\ progress_history = (DownloadId("radarr", 1) :> h)
          /\ now \in { t \in {7800, 8400} : t >= h[Len(h)].timestamp }
    /\ CacheUnused

AnalysisNext == Analyze

AnalysisSpec == AnalysisInit /\ [][AnalysisNext]_vars

-----------------------------------------------------------------------------
(* One download that never moves, snapshotted every refresh interval under
   the default settings *)

StallPolls == 245

StalledDownload == [id |-> 1, progress |-> 500, sizeleft |-> 1000000000, status |-> "downloading"]

\* The download has its snapshot for the current interval.
PolledNow ==
    /\ DownloadId("radarr", 1) \in DOMAIN progress_history
    /\ LET h == progress_history[DownloadId("radarr", 1)] IN h[Len(h)].timestamp = now

StallInit ==
    /\ cfg = DefaultConfig
    /\ NoComponents
    /\ now = 0
    /\ progress_history = << >>
    /\ CacheUnused

\* The refresh loop's record_progress_snapshot call for the interval.
PollStalled == ~PolledNow /\ Record(<<StalledDownload>>, "radarr")

\* The refresh loop sleeps refresh_interval seconds.
WaitInterval ==
    /\ PolledNow
    /\ now + refresh_interval <= StallPolls * refresh_interval
    /\ now' = now + refresh_interval
    /\ NoOutput
    /\ UNCHANGED <<cfg, components, progress_history, queue, loaded, last_refresh, mode, pc,
                   current_time, result, streak>>
    /\ UNCHANGED threads

StallNext ==
    \/ PollStalled
    \/ WaitInterval
    \/ Analyze

StallSpec == StallInit /\ [][StallNext]_vars

-----------------------------------------------------------------------------
(* The refresh thread statement by statement, with another thread calling
   get_movie_queue / get_tv_queue and analyze_stuck_downloads meanwhile *)

\* The lists get_queue_items returns here.
ThreadLists == { <<>>, <<ItemStalled>>, <<ItemStalled, ItemOther>> }

\* The mutation of UpdateOrder that records the snapshots before it replaces
\* the cached list.
UpdateOrderRecordFirst == <<"fetch", "record", "cleanup", "assign", "flag">>

\* The statements of _refresh_<service>_data(_sync) on a returned list, in
\* order: get_queue_items, the assignment under the lock,
\* record_progress_snapshot's loop and its two cleanups, the flag.
UpdateOrder == <<"fetch", "assign", "record", "cleanup", "flag">>

\* The statement after the one named phase.
NextPhase(phase) ==
    LET i == CHOOSE j \in 1..Len(UpdateOrder) : UpdateOrder[j] = phase
    IN IF i = Len(UpdateOrder) THEN "fetch" ELSE UpdateOrder[i + 1]

\* The refresh thread about to poll service s.
Polling(s) ==
    [phase |-> "fetch", service |-> s, batch |-> <<>>, k |-> 1, active |-> {},
     inactive |-> {}]

\* The mutation of LockFree in which the writer does not take the lock.
LockIgnored(s) == TRUE

\* movie_queue_lock / tv_queue_lock is not held (by the reading thread).
LockFree(s) == ~(caller.op = "read" /\ caller.service = s /\ caller.phase = "locked")

ThreadInit ==
    /\ Init
    /\ mode = "sync_real"

\* The thread's variables after Init: one refresh thread, started.
ThreadStarted ==
    /\ running' = TRUE
    /\ handle' = 1
    /\ loops' = <<Polling("radarr")>>

\* start_background_refresh without an event loop: the thread is created.
StartThread ==
    /\ handle = 0
    /\ ThreadStarted
    /\ UNCHANGED <<now, cfg, components, progress_history, cleaned, raised, stuck_downloads, queue,
                   loaded, last_refresh, mode, pc, current_time, result, streak, caller>>

\* What the refresh thread leaves alone in every statement.
WriterFrame ==
    UNCHANGED <<now, cfg, components, cleaned, raised, stuck_downloads, last_refresh, mode, pc,
                current_time, result, streak, running, handle, caller>>

\* get_queue_items returns a list, or raises (the flag is cleared and the
\* thread goes on to the other service).
WriterFetch ==
    /\ handle = 1
    /\ loops[1].phase = "fetch"
    /\ \/ \E items \in ThreadLists :
            /\ loops' = <<[loops[1] EXCEPT !.phase = NextPhase("fetch"), !.batch = items]>>
            /\ UNCHANGED loaded
       \/ /\ loops' = <<Polling(Other(loops[1].service))>>
          /\ loaded' = [loaded EXCEPT ![loops[1].service] = FALSE]
    /\ UNCHANGED <<queue, progress_history>>
    /\ WriterFrame

\* with self.movie_queue_lock: self.movie_queue = movie_queue
WriterAssign ==
    /\ handle = 1
    /\ loops[1].phase = "assign"
    /\ LockFree(loops[1].service)
    /\ queue' = [queue EXCEPT ![loops[1].service] = loops[1].batch]
    /\ loops' = <<[loops[1] EXCEPT !.phase = NextPhase("assign")]>>
    /\ UNCHANGED <<loaded, progress_history>>
    /\ WriterFrame

\* One iteration of record_progress_snapshot's for loop; after the last one,
\* line 90 computes the ids to delete.
WriterRecord ==
    /\ handle = 1
    /\ loops[1].phase = "record"
    /\ LET w == loops[1]
       IN IF w.k <= Len(w.batch)
          THEN LET download_id == DownloadId(w.service, ItemGet(w.batch[w.k], "id", 0))
               IN /\ progress_history' =
                        AppendSnapshot(progress_history, download_id,
                                       ProgressSnapshot(w.batch[w.k], now),
                                       cfg.max_snapshots_per_download)
                  /\ loops' = <<[w EXCEPT !.k = w.k + 1,
                                          !.active = w.active \cup {download_id}]>>
          ELSE /\ loops' = <<[w EXCEPT !.phase = NextPhase("record"),
                                       !.inactive = InactiveIds(progress_history, w.active)]>>
               /\ UNCHANGED progress_history
    /\ UNCHANGED <<queue, loaded>>
    /\ WriterFrame

\* One del of _cleanup_inactive_downloads; after the last one,
\* _cleanup_old_snapshots (which adds and removes no key).
WriterCleanup ==
    /\ handle = 1
    /\ loops[1].phase = "cleanup"
    /\ LET w == loops[1]
       IN IF w.inactive # {}
          THEN \E d \in w.inactive :
                  /\ progress_history' =
                        [e \in DOMAIN progress_history \ {d} |-> progress_history[e]]
                  /\ loops' = <<[w EXCEPT !.inactive = w.inactive \ {d}]>>
          ELSE /\ progress_history' =
                        CleanupOldSnapshots(progress_history, now, cfg.progress_history)
               /\ loops' = <<[w EXCEPT !.phase = NextPhase("cleanup")]>>
    /\ UNCHANGED <<queue, loaded>>
    /\ WriterFrame

\* self.radarr_loaded = True, and on to the other service.
WriterFlag ==
    /\ handle = 1
    /\ loops[1].phase = "flag"
    /\ loaded' = [loaded EXCEPT ![loops[1].service] = TRUE]
    /\ loops' = <<Polling(Other(loops[1].service))>>
    /\ UNCHANGED <<queue, progress_history>>
    /\ WriterFrame

\* What the calling thread leaves alone in every statement.
CallerFrame ==
    UNCHANGED <<now, cfg, components, progress_history, cleaned, raised, stuck_downloads, queue,
                loaded, last_refresh, mode, pc, current_time, result, streak, running,
                loops, handle>>

\* get_movie_queue / get_tv_queue is called and takes the lock.  before keeps
\* the list cached at that moment.
ReadAcquire(s) ==
    /\ caller = NoCall
    /\ caller' = [op |-> "read", service |-> s, phase |-> "locked", copy |-> <<>>,
                  before |-> queue[s], after |-> queue[s]]
    /\ CallerFrame

\* list(self.movie_queue), one element at a time, then the lock is released
\* and the copy returned.  after keeps the list cached at the return.
ReadCopy ==
    /\ caller.op = "read"
    /\ caller.phase = "locked"
    /\ LET i == Len(caller.copy) + 1
       IN IF i <= Len(queue[caller.service])
          THEN caller' = [caller EXCEPT !.copy = Append(caller.copy, queue[caller.service][i])]
          ELSE caller' = [caller EXCEPT !.phase = "returned", !.after = queue[caller.service]]
    /\ CallerFrame

\* analyze_stuck_downloads starts iterating self.progress_history.items().
AnalyzeBegin ==
    /\ caller = NoCall
    /\ caller' = [op |-> "analyze", phase |-> "iterating",
                  size |-> Cardinality(DOMAIN progress_history), seen |-> {}, found |-> {}]
    /\ CallerFrame

\* The next step of the for loop: the dict iterator raises RuntimeError when
\* the dict's size is no longer the one it started with; else it yields a
\* key, whose snapshots are analysed, or ends the loop.
AnalyzeStep ==
    /\ caller.op = "analyze"
    /\ caller.phase = "iterating"
    /\ IF Cardinality(DOMAIN progress_history) # caller.size
       THEN caller' = [caller EXCEPT !.phase = "raised"]
       ELSE IF DOMAIN progress_history \subseteq caller.seen
            THEN caller' = [caller EXCEPT !.phase = "returned"]
            ELSE \E d \in DOMAIN progress_history \ caller.seen :
                    caller' = [caller EXCEPT
                                 !.seen = caller.seen \cup {d},
                                 !.found = caller.found \cup
                                     (IF Len(progress_history[d]) < 2 THEN {}
                                      ELSE AnalyzeDownloadProgress(d, progress_history[d],
                                                                   now, cfg))]
    /\ CallerFrame

\* The call is over.
CallReturns ==
    /\ caller # NoCall
    /\ caller.phase \in {"returned", "raised"}
    /\ caller' = NoCall
    /\ CallerFrame

ThreadNext ==
    \/ StartThread
    \/ WriterFetch
    \/ WriterAssign
    \/ WriterRecord
    \/ WriterCleanup
    \/ WriterFlag
    \/ \E s \in Services : ReadAcquire(s)
    \/ ReadCopy
    \/ AnalyzeBegin
    \/ AnalyzeStep
    \/ CallReturns

ThreadSpec == ThreadInit /\ [][ThreadNext]_vars

-----------------------------------------------------------------------------
(* start_background_refresh, stop_background_refresh and the background
   loop they start: a thread when no event loop runs, else an asyncio task *)

MaxLoops == 2

\* The lists get_queue_items returns here.
LoopLists == { <<>>, <<ItemStalled>> }

Alive(loop) == loop.phase # "dead"

\* A task is suspended at an await (or not started, or over): only then can
\* other code of the event loop's thread run.
Suspended(loop) == loop.phase \in {"new", "fetch", "updates", "sleep", "dead"}

\* The calling thread between calls.  stopped: stop_background_refresh has
\* been called since the last start that created a loop; refused: the last
\* start_background_refresh call created nothing.
Between(stopped, refused) == [op |-> "none", stopped |-> stopped, refused |-> refused]

\* The caller can run: always beside a thread, on the event loop only while
\* every task is suspended.
CallerRuns ==
    /\ caller.op = "none"
    /\ mode = "async" => \A i \in 1..MaxLoops : Suspended(loops[i])

LoopInit ==
    /\ now = RefreshInterval
    /\ cfg = TrackerConfig
    /\ NoComponents
    /\ progress_history = << >>
    /\ cleaned = {}
    /\ raised = FALSE
    /\ stuck_downloads = NotRun
    /\ queue = [s \in Services |-> <<>>]
    /\ loaded = [s \in Services |-> FALSE]
    /\ last_refresh = 0
    /\ mode \in Modes
    /\ pc = [phase |-> "idle", service |-> "radarr"]
    /\ current_time = 0
    /\ result = [s \in Services |-> Pending]
    /\ streak = [d \in AllDownloadIds |-> 0]
    /\ running = FALSE
    /\ loops = [i \in 1..MaxLoops |-> NoLoop]
    /\ handle = 0
    /\ caller = Between(FALSE, FALSE)

\* What the lifecycle calls leave alone.
CacheFrame ==
    UNCHANGED <<now, cfg, components, progress_history, cleaned, raised, stuck_downloads, queue,
                loaded, last_refresh, mode, pc, current_time, result, streak>>

\* The mutation of MayStart that creates a loop on every call.
MayStartAlways(h) == TRUE

\* The test of start_background_refresh: no thread / task yet, or the last
\* one is over (not is_alive(), done()).
MayStart(h) == h = 0 \/ ~Alive(loops[h])

\* start_background_refresh()
Start ==
    /\ CallerRuns
    /\ IF MayStart(handle)
       THEN \E i \in 1..MaxLoops :
               /\ ~Alive(loops[i])
               /\ running' = TRUE
               /\ handle' = i
               /\ loops' = [loops EXCEPT ![i] =
                              [phase |-> "new", service |-> "radarr", cancel |-> FALSE,
                               batch |-> <<>>, updates |-> "none"]]
               /\ caller' = Between(FALSE, FALSE)
       ELSE /\ caller' = Between(caller.stopped, TRUE)
            /\ UNCHANGED <<running, handle, loops>>
    /\ CacheFrame

\* stop_background_refresh() up to the join: _running = False, the task is
\* cancelled, the thread is joined.
Stop ==
    /\ CallerRuns
    /\ running' = FALSE
    /\ IF handle # 0 /\ Alive(loops[handle])
       THEN IF mode = "async"
            THEN /\ loops' = [loops EXCEPT ![handle].cancel = TRUE]
                 /\ caller' = Between(TRUE, FALSE)
            ELSE /\ caller' = [op |-> "join", stopped |-> TRUE, refused |-> FALSE]
                 /\ UNCHANGED loops
       ELSE /\ caller' = Between(TRUE, FALSE)
            /\ UNCHANGED loops
    /\ UNCHANGED handle
    /\ CacheFrame

\* The mutation of JoinDone that joins without a timeout.
JoinDoneWhenDead(alive, timed_out) == ~alive

\* self._fetch_thread.join(timeout=1.0) returns: the thread has ended or the
\* timeout has elapsed.
JoinDone(alive, timed_out) == ~alive \/ timed_out

\* The join returns, and stop_background_refresh with it.
StopJoin ==
    /\ caller.op = "join"
    /\ \E timed_out \in BOOLEAN : JoinDone(Alive(loops[handle]), timed_out)
    /\ caller' = Between(TRUE, FALSE)
    /\ UNCHANGED <<running, loops, handle>>
    /\ CacheFrame

\* What a step of loop i leaves alone besides the cache and the tracker.
LoopFrame ==
    UNCHANGED <<now, cfg, components, cleaned, raised, stuck_downloads, mode, pc, current_time,
                result, streak, running, handle, caller>>

\* What one get_download_updates call can do: return, raise, or be timed
\* out by the asyncio.wait_for that guards it with real clients (the mock is
\* called directly).
UpdateOutcomes ==
    IF mode = "sync_mock" THEN {"ok", "error"} ELSE {"ok", "error", "timeout"}

\* The loop leaves the update of service s: on to sonarr, or to the end of
\* the cycle.  updates: what the get_download_updates call of the update
\* just left did, "none" when it made none.
LoopAfter(loop, s, outcome) ==
    IF s = "radarr"
    THEN [loop EXCEPT !.phase = "fetch", !.service = "sonarr", !.batch = <<>>,
                      !.updates = outcome]
    ELSE [loop EXCEPT !.phase = "finish", !.batch = <<>>, !.updates = outcome]

\* CancelledError is thrown into a cancelled task where it is suspended; no
\* handler of the loop or of the per-source update catches it before the
\* loop's own, which ends the task.
Cancelled(loop) == mode = "async" /\ loop.cancel

LoopCancelled(i) ==
    /\ loops[i].phase \in {"new", "fetch", "updates", "sleep"}
    /\ Cancelled(loops[i])
    /\ loops' = [loops EXCEPT ![i] = NoLoop]
    /\ UNCHANGED <<progress_history, queue, loaded, last_refresh>>
    /\ LoopFrame

\* The thread or the task begins to run.
LoopRun(i) ==
    /\ loops[i].phase = "new"
    /\ ~Cancelled(loops[i])
    /\ loops' = [loops EXCEPT ![i].phase = "check"]
    /\ UNCHANGED <<progress_history, queue, loaded, last_refresh>>
    /\ LoopFrame

\* while self._running:
LoopCheck(i) ==
    /\ loops[i].phase = "check"
    /\ loops' = [loops EXCEPT ![i] = IF running THEN [@ EXCEPT !.phase = "call"] ELSE NoLoop]
    /\ UNCHANGED <<progress_history, queue, loaded, last_refresh>>
    /\ LoopFrame

\* refresh_data_sync() / _refresh_data_async() up to the first
\* get_queue_items(), or to their early return.
LoopCall(i) ==
    /\ loops[i].phase = "call"
    /\ loops' = [loops EXCEPT ![i] =
                   IF SkipRefresh(now) THEN [@ EXCEPT !.phase = "sleep"]
                   ELSE [@ EXCEPT !.phase = "fetch", !.service = "radarr"]]
    /\ UNCHANGED <<progress_history, queue, loaded, last_refresh>>
    /\ LoopFrame

\* get_queue_items() returns a list: the cache is replaced under its lock,
\* the list is recorded, get_download_updates() is called.
LoopFetched(i) ==
    /\ loops[i].phase = "fetch"
    /\ ~Cancelled(loops[i])
    /\ \E items \in LoopLists :
       \E r \in {RecordProgressSnapshot(progress_history, items, loops[i].service, now, cfg)} :
          /\ queue' = [queue EXCEPT ![loops[i].service] = items]
          /\ progress_history' = r.history
          /\ IF r.raised
             THEN /\ loaded' = [loaded EXCEPT ![loops[i].service] = FALSE]
                  /\ loops' = [loops EXCEPT ![i] = LoopAfter(@, @.service, "none")]
             ELSE /\ loops' = [loops EXCEPT ![i] =
                                 [@ EXCEPT !.phase = "updates", !.batch = items,
                                           !.updates = "none"]]
                  /\ UNCHANGED loaded
    /\ UNCHANGED last_refresh
    /\ LoopFrame

\* get_queue_items() raises, or times out where a timeout guards it: the
\* flag is cleared.  The radarr mock is left running in its executor, whose
\* shutdown waits for it; the sonarr mock is called without a timeout.
LoopFetchFails(i) ==
    /\ loops[i].phase = "fetch"
    /\ ~Cancelled(loops[i])
    /\ \E hangs \in BOOLEAN :
          IF hangs /\ mode = "sync_mock"
          THEN /\ loops' = [loops EXCEPT ![i] = [@ EXCEPT !.phase = "blocked", !.updates = "none"]]
               /\ loaded' = IF loops[i].service = "radarr"
                            THEN [loaded EXCEPT !["radarr"] = FALSE] ELSE loaded
          ELSE /\ loops' = [loops EXCEPT ![i] = LoopAfter(@, @.service, "none")]
               /\ loaded' = [loaded EXCEPT ![loops[i].service] = FALSE]
    /\ UNCHANGED <<progress_history, queue, last_refresh>>
    /\ LoopFrame

\* The mutation of LoadedAfterUpdates that sets the flag only when
\* get_download_updates returned.
LoadedAfterUpdatesReturned(outcome, old) == IF outcome = "ok" THEN TRUE ELSE old

\* The flag after the get_download_updates call: its exception, the
\* TimeoutError of wait_for included, is caught and logged, and the flag is
\* set in every case.
LoadedAfterUpdates(outcome, old) == TRUE

\* get_download_updates() returns, raises or is timed out.
LoopUpdated(i) ==
    /\ loops[i].phase = "updates"
    /\ ~Cancelled(loops[i])
    /\ \E outcome \in UpdateOutcomes :
          /\ loaded' = [loaded EXCEPT ![loops[i].service] = LoadedAfterUpdates(outcome, @)]
          /\ loops' = [loops EXCEPT ![i] = LoopAfter(@, @.service, outcome)]
    /\ UNCHANGED <<progress_history, queue, last_refresh>>
    /\ LoopFrame

\* self.last_refresh = current_time, then the sleep of the loop.
LoopFinish(i) ==
    /\ loops[i].phase = "finish"
    /\ last_refresh' = now
    /\ loops' = [loops EXCEPT ![i] = [@ EXCEPT !.phase = "sleep", !.updates = "none"]]
    /\ UNCHANGED <<progress_history, queue, loaded>>
    /\ LoopFrame

\* The sleep ends: refresh_interval has passed, or the thread has seen
\* _running cleared.
LoopWake(i) ==
    /\ loops[i].phase = "sleep"
    /\ ~Cancelled(loops[i])
    /\ loops' = [loops EXCEPT ![i].phase = "check"]
    /\ UNCHANGED <<progress_history, queue, loaded, last_refresh>>
    /\ LoopFrame

LoopStep(i) ==
    \/ LoopCancelled(i)
    \/ LoopRun(i)
    \/ LoopCheck(i)
    \/ LoopCall(i)
    \/ LoopFetched(i)
    \/ LoopFetchFails(i)
    \/ LoopUpdated(i)
    \/ LoopFinish(i)
    \/ LoopWake(i)

LoopNext ==
    \/ Start
    \/ Stop
    \/ StopJoin
    \/ \E i \in 1..MaxLoops : LoopStep(i)

LoopSpec == LoopInit /\ [][LoopNext]_vars

\* The join of stop_background_refresh returns once it is enabled: the
\* calling thread is scheduled and the timeout is finite.
FairLoopSpec == LoopSpec /\ WF_vars(StopJoin)

-----------------------------------------------------------------------------
(* record_progress_snapshot called by several threads at once, as the two
   recording threads of test_thread_safety_basic do; ProgressTracker takes
   no lock *)

Recorders == 2

\* The list the recording threads pass, the same for all and for radarr.
RaceLists == { <<ItemStalled>> }

\* A recording thread outside record_progress_snapshot.
NotRecording == [phase |-> "idle", current_time |-> 0, batch |-> <<>>, k |-> 1, active |-> {}]

RaceInit ==
    /\ now = RefreshInterval
    /\ cfg = TrackerConfig
    /\ NoComponents
    /\ progress_history = << >>
    /\ cleaned = {}
    /\ raised = FALSE
    /\ stuck_downloads = NotRun
    /\ queue = [s \in Services |-> <<>>]
    /\ loaded = [s \in Services |-> FALSE]
    /\ last_refresh = 0
    /\ mode = "sync_mock"
    /\ pc = [phase |-> "idle", service |-> "radarr"]
    /\ current_time = 0
    /\ result = [s \in Services |-> Pending]
    /\ streak = [d \in AllDownloadIds |-> 0]
    /\ running = FALSE
    /\ loops = [i \in 1..Recorders |-> NotRecording]
    /\ handle = 0
    /\ caller = NoCall

RaceFrame ==
    UNCHANGED <<cfg, components, cleaned, raised, stuck_downloads, queue, loaded, last_refresh, mode,
                pc, current_time, result, streak, running, handle, caller>>

\* The clock moves while the threads run.
RaceElapse ==
    /\ now < MaxTime
    /\ now' = now + 1
    /\ UNCHANGED <<progress_history, loops>>
    /\ RaceFrame

\* Lines 48-51: current_time = time.time(), active_download_ids = set().
RaceBegin(i) ==
    /\ loops[i].phase = "idle"
    /\ \E download_items \in RaceLists :
          loops' = [loops EXCEPT ![i] =
                      [phase |-> "items", current_time |-> now, batch |-> download_items,
                       k |-> 1, active |-> {}]]
    /\ UNCHANGED <<now, progress_history>>
    /\ RaceFrame

\* Lines 53-76 for one item: the snapshot carries the call's current_time.
RaceItem(i) ==
    /\ loops[i].phase = "items"
    /\ loops[i].k <= Len(loops[i].batch)
    /\ LET item        == loops[i].batch[loops[i].k]
           download_id == DownloadId("radarr", ItemGet(item, "id", 0))
       IN /\ progress_history' =
                AppendSnapshot(progress_history, download_id,
                               ProgressSnapshot(item, loops[i].current_time),
                               cfg.max_snapshots_per_download)
          /\ loops' = [loops EXCEPT ![i].k = @ + 1, ![i].active = @ \cup {download_id}]
    /\ UNCHANGED now
    /\ RaceFrame

\* Lines 78-82: the two cleanups, then the call returns.
RaceCleanup(i) ==
    /\ loops[i].phase = "items"
    /\ loops[i].k > Len(loops[i].batch)
    /\ progress_history' =
          CleanupOldSnapshots(CleanupInactiveDownloads(progress_history, loops[i].active),
                              loops[i].current_time, cfg.progress_history)
    /\ loops' = [loops EXCEPT ![i] = NotRecording]
    /\ UNCHANGED now
    /\ RaceFrame

RaceNext ==
    \/ RaceElapse
    \/ \E i \in 1..Recorders : RaceBegin(i)
    \/ \E i \in 1..Recorders : RaceItem(i)
    \/ \E i \in 1..Recorders : RaceCleanup(i)

RaceSpec == RaceInit /\ [][RaceNext]_vars

-----------------------------------------------------------------------------
(* record_progress_snapshot as a function of the list it is given: lists of
   up to two items, each with all of its fields or with one of them absent *)

MaxBatch == 2

RequiredFields == {"id", "progress", "sizeleft", "status"}

\* The queue items without one of their fields, and with all of them.
BatchItems ==
    LET full == [id : ItemIds, progress : {0, 2}, sizeleft : {2}, status : {"downloading"}]
    IN full \cup { [key \in RequiredFields \ {absent} |-> item[key]] :
                      item \in full, absent \in RequiredFields }

BatchLists == UNION { [1..n -> BatchItems] : n \in 0..MaxBatch }

BatchInit ==
    /\ now = RefreshInterval
    /\ cfg = TrackerConfig
    /\ NoComponents
    /\ progress_history = << >>
    /\ cleaned = {}
    /\ raised = FALSE
    /\ stuck_downloads = NotRun
    /\ queue \in [Services -> BatchLists]
    /\ queue["sonarr"] \in {<<>>, <<ItemStalled>>}
    /\ loaded = [s \in Services |-> FALSE]
    /\ last_refresh = 0
    /\ mode = "sync_mock"
    /\ pc = [phase |-> "idle", service |-> "radarr"]
    /\ current_time = 0
    /\ result = [s \in Services |-> Pending]
    /\ streak = [d \in AllDownloadIds |-> 0]
    /\ NoThreads

\* The per-source update after the assignment of the cached list:
\* record_progress_snapshot(<the list>, <service>), then the flag.
RecordCached(s) ==
    /\ ~loaded[s]
    /\ \E r \in {RecordProgressSnapshot(progress_history, queue[s], s, now, cfg)} :
          /\ progress_history' = r.history
          /\ cleaned' = r.cleaned
          /\ raised' = r.raised
          /\ loaded' = [loaded EXCEPT ![s] = ~r.raised]
    /\ stuck_downloads' = NotRun
    /\ UNCHANGED <<now, cfg, components, queue, last_refresh, mode, pc, current_time, result, streak>>
    /\ UNCHANGED threads

BatchNext == \E s \in Services : RecordCached(s)

BatchSpec == BatchInit /\ [][BatchNext]_vars

-----------------------------------------------------------------------------
(* get_statistics and _calculate_download_speeds after any sequence of
   record_progress_snapshot calls, with sizes in bytes *)

\* Download 1 with 3, 1 and 0 MB left, download 2 with 2 and 1 MB left.
StatsItem(id, mb_left) ==
    [id |-> id, progress |-> 0, sizeleft |-> mb_left * BytesPerMB, status |-> "downloading"]

StatsLists ==
    { <<>>, <<StatsItem(1, 3)>>, <<StatsItem(1, 1)>>, <<StatsItem(1, 0)>>,
      <<StatsItem(1, 3), StatsItem(2, 2)>>, <<StatsItem(1, 1), StatsItem(2, 1)>> }

StatsInit == TrackerInit

\* get_statistics(): speeds is its local list, stats what it returns.
Statistics ==
    /\ caller = NoCall
    /\ caller' = [op     |-> "statistics",
                  phase  |-> "returned",
                  speeds |-> CalculateDownloadSpeeds(progress_history),
                  stats  |-> GetStatistics(progress_history)]
    /\ CallerFrame

StatsNext ==
    \/ caller = NoCall /\ Elapse
    \/ caller = NoCall /\ \E download_items \in StatsLists : Record(download_items, "radarr")
    \/ caller = NoCall /\ Record(<<StatsItem(1, 3)>>, "sonarr")
    \/ Statistics
    \/ CallReturns

StatsSpec == StatsInit /\ [][StatsNext]_vars

-----------------------------------------------------------------------------
(* get_movie_queue / get_tv_queue and what their caller does with the lists
   they return.  A held list is its items together with whether it is the
   very list object the cache refers to *)

MaxHeld == 2

\* The mutation of Returned that hands out the cached list object itself.
ReturnedCached(cached) == [alias |-> TRUE, items |-> cached]

\* return list(self.movie_queue): a new list object with the same elements.
Returned(cached) == [alias |-> FALSE, items |-> cached]

CopyInit ==
    /\ now = RefreshInterval
    /\ cfg = TrackerConfig
    /\ NoComponents
    /\ progress_history = << >>
    /\ cleaned = {}
    /\ raised = FALSE
    /\ stuck_downloads = NotRun
    /\ queue \in [Services -> ThreadLists]
    /\ loaded = [s \in Services |-> TRUE]
    /\ last_refresh = 0
    /\ mode = "sync_real"
    /\ pc = [phase |-> "idle", service |-> "radarr"]
    /\ current_time = 0
    /\ result = [s \in Services |-> Pending]
    /\ streak = [d \in AllDownloadIds |-> 0]
    /\ NoThreads

CopyFrame ==
    UNCHANGED <<now, cfg, components, progress_history, cleaned, raised, stuck_downloads, loaded,
                last_refresh, mode, pc, current_time, result, streak, running, loops,
                handle>>

\* get_movie_queue() / get_tv_queue(): the caller keeps the returned list
\* beside those it already holds of that service.
GetQueue(s) ==
    /\ \/ /\ caller = NoCall
          /\ caller' = [op |-> "hold", service |-> s, lists |-> <<Returned(queue[s])>>]
       \/ /\ caller # NoCall
          /\ caller.op = "hold"
          /\ caller.service = s
          /\ Len(caller.lists) < MaxHeld
          /\ caller' = [caller EXCEPT !.lists = Append(@, Returned(queue[s]))]
    /\ UNCHANGED queue
    /\ CopyFrame

\* A change made through held list k shows in every name of the same list
\* object: in the cache and in the other held lists that are that object.
Mutated(k, items) ==
    /\ caller' = [caller EXCEPT !.lists =
                     [j \in 1..Len(@) |->
                         IF j = k \/ (@[k].alias /\ @[j].alias)
                         THEN [@[j] EXCEPT !.items = items] ELSE @[j]]]
    /\ queue' = IF caller.lists[k].alias
                THEN [queue EXCEPT ![caller.service] = items] ELSE queue
    /\ CopyFrame

\* result.append(item) on a returned list.
AppendToReturned ==
    /\ caller # NoCall
    /\ caller.op = "hold"
    /\ \E k \in 1..Len(caller.lists) :
          /\ Len(caller.lists[k].items) < MaxBatch + 1
          /\ Mutated(k, Append(caller.lists[k].items, ItemDone))

\* result.pop(0) on a returned list.
RemoveFromReturned ==
    /\ caller # NoCall
    /\ caller.op = "hold"
    /\ \E k \in 1..Len(caller.lists) :
          /\ caller.lists[k].items # <<>>
          /\ Mutated(k, Tail(caller.lists[k].items))

\* The caller lets go of the lists.
Release ==
    /\ caller # NoCall
    /\ caller.op = "hold"
    /\ caller' = NoCall
    /\ UNCHANGED queue
    /\ CopyFrame

CopyNext ==
    \/ \E s \in Services : GetQueue(s)
    \/ AppendToReturned
    \/ RemoveFromReturned
    \/ Release

CopySpec == CopyInit /\ [][CopyNext]_vars

-----------------------------------------------------------------------------
(* The thread-based and the asyncio-based update of a source, side by side:
   two cache managers, each with its own tracker, are given the same upstream
   outcomes cycle after cycle.  progress_history, queue and loaded are the
   thread-based manager's, handle holds the asyncio-based manager's. *)

\* What get_download_updates can do inside the list branch: return, or raise
\* or time out (both caught and logged by the inner try).
UpdatesOutcomes == {"ok", "fails"}

\* _refresh_<service>_data (m = "async") and _refresh_<service>_data_sync
\* with real clients (m = "sync_real") on the outcome r of get_queue_items,
\* from the state st of the manager to its state after the call.  A timeout
\* is asyncio.TimeoutError out of wait_for in both; the outcome of
\* get_download_updates changes nothing in either.
RefreshSource(m, s, st, r, t, c) ==
    CASE r.kind \in {"list", "none"} ->
            LET rec == RecordProgressSnapshot(st.history, r.items, s, t, c)
            IN [loaded  |-> [st.loaded EXCEPT ![s] = ~rec.raised],
                queue   |-> [st.queue EXCEPT ![s] = r.items],
                history |-> rec.history]
      [] r.kind = "notlist" ->
            [st EXCEPT !.loaded[s] = IF m = "async" THEN FALSE ELSE @]
      [] OTHER -> [st EXCEPT !.loaded[s] = FALSE]

PairInit ==
    /\ now = 0
    /\ cfg = TrackerConfig
    /\ NoComponents
    /\ progress_history = << >>
    /\ cleaned = {}
    /\ raised = FALSE
    /\ stuck_downloads = NotRun
    /\ queue = [s \in Services |-> <<>>]
    /\ loaded = [s \in Services |-> FALSE]
    /\ last_refresh = 0
    /\ mode = "sync_real"
    /\ pc = [phase |-> "refresh", service |-> "radarr"]
    /\ current_time = 0
    /\ result = [s \in Services |-> Pending]
    /\ streak = [d \in AllDownloadIds |-> 0]
    /\ running = FALSE
    /\ loops = <<NoLoop>>
    /\ handle = [loaded |-> loaded, queue |-> queue, history |-> progress_history]
    /\ caller = NoCall

PairFrame ==
    /\ cleaned' = {}
    /\ raised' = FALSE
    /\ stuck_downloads' = NotRun
    /\ UNCHANGED <<cfg, components, last_refresh, mode, current_time, streak, running, loops, caller>>

\* Both managers update the source s on the same outcome of get_queue_items
\* and of get_download_updates.
PairRefresh(s) ==
    /\ pc = [phase |-> "refresh", service |-> s]
    /\ \E r \in FetchResults, u \in UpdatesOutcomes :
          /\ result' = [result EXCEPT ![s] = [kind |-> r.kind, items |-> r.items, updates |-> u]]
          /\ \E sync \in {RefreshSource(mode, s,
                             [loaded |-> loaded, queue |-> queue, history |-> progress_history],
                             r, now, cfg)} :
                /\ loaded' = sync.loaded
                /\ queue' = sync.queue
                /\ progress_history' = sync.history
          /\ handle' = RefreshSource("async", s, handle, r, now, cfg)
    /\ pc' = AfterService(s)
    /\ now' = now
    /\ PairFrame

\* The cycle is over in both; the next one starts a clock unit later.
PairNextCycle ==
    /\ pc.phase = "finish"
    /\ now < MaxTime
    /\ now' = now + 1
    /\ pc' = [phase |-> "refresh", service |-> "radarr"]
    /\ result' = [s \in Services |-> Pending]
    /\ UNCHANGED <<progress_history, queue, loaded, handle>>
    /\ PairFrame

PairNext ==
    \/ \E s \in Services : PairRefresh(s)
    \/ PairNextCycle

PairSpec == PairInit /\ [][PairNext]_vars

-----------------------------------------------------------------------------
(* DownloadMonitor.start and stop, called on the event loop, with the cache
   manager's refresh task and the monitor's two loop tasks *)

\* What self.bot.get_channel(...) can do in start: return the channel,
\* return None, or raise.
ChannelOutcomes == {"found", "missing", "error"}

MonitorInit == LoopInit /\ mode = "async"

\* What DownloadMonitor's calls and tasks leave alone.
MonitorFrame ==
    UNCHANGED <<now, cfg, progress_history, cleaned, raised, stuck_downloads, queue,
                loaded, last_refresh, mode, pc, current_time, result, streak,
                pagination, client>>

\* DownloadMonitor.start(): _running is set before the channel is looked up;
\* without a channel the call returns there.  With one it starts the
\* background refresh (cache_manager.start_background_refresh, whose task
\* test is MayStart) and creates the monitor task and the health task; the
\* message cleanup and the initial health message catch their own errors.
MonitorStart(channel) ==
    /\ CallerRuns
    /\ IF monitor.running
       THEN UNCHANGED <<monitor, running, handle, loops, caller>>
       ELSE IF channel # "found"
            THEN /\ monitor' = [monitor EXCEPT !.running = TRUE,
                                               !.channel = IF channel = "missing" THEN FALSE ELSE @]
                 /\ UNCHANGED <<running, handle, loops, caller>>
            ELSE /\ monitor' = [monitor EXCEPT !.running = TRUE, !.channel = TRUE,
                                               !.task = "active", !.health_task = "active"]
                 /\ IF MayStart(handle)
                    THEN \E i \in 1..MaxLoops :
                            /\ ~Alive(loops[i])
                            /\ running' = TRUE
                            /\ handle' = i
                            /\ loops' = [loops EXCEPT ![i] =
                                           [phase |-> "new", service |-> "radarr", cancel |-> FALSE,
                                            batch |-> <<>>, updates |-> "none"]]
                            /\ caller' = Between(FALSE, FALSE)
                    ELSE /\ caller' = Between(caller.stopped, TRUE)
                         /\ UNCHANGED <<running, handle, loops>>
    /\ MonitorFrame

\* DownloadMonitor.stop(): nothing when not running.  Otherwise _running is
\* cleared and cache_manager.stop_background_refresh() is called (it clears
\* its own _running and cancels the refresh task); the call returns None and
\* the await of that value raises TypeError, which ends stop() before the
\* tasks are cancelled and the sessions closed.
MonitorStop ==
    /\ CallerRuns
    /\ IF ~monitor.running
       THEN UNCHANGED <<monitor, running, loops, caller>>
       ELSE /\ monitor' = [monitor EXCEPT !.running = FALSE]
            /\ running' = FALSE
            /\ loops' = IF handle # 0 /\ Alive(loops[handle])
                        THEN [loops EXCEPT ![handle].cancel = TRUE] ELSE loops
            /\ caller' = Between(TRUE, FALSE)
    /\ UNCHANGED handle
    /\ MonitorFrame

\* _monitor_loop and _health_monitor_loop: "while self._running" fails when
\* the task wakes from its sleep, and the task ends.
MonitorLoopExit(which) ==
    /\ monitor[which] = "active"
    /\ ~monitor.running
    /\ monitor' = [monitor EXCEPT ![which] = "done"]
    /\ UNCHANGED <<running, handle, loops, caller>>
    /\ MonitorFrame

\* The refresh task up to its first get_queue_items, and its end when it has
\* been cancelled.
RefreshTaskStep(i) ==
    \/ LoopRun(i)
    \/ LoopCheck(i)
    \/ LoopCall(i)
    \/ LoopCancelled(i)

MonitorNext ==
    \/ \E channel \in ChannelOutcomes : MonitorStart(channel)
    \/ MonitorStop
    \/ \E which \in {"task", "health_task"} : MonitorLoopExit(which)
    \/ \E i \in 1..MaxLoops : RefreshTaskStep(i)

MonitorSpec == MonitorInit /\ [][MonitorNext]_vars

-----------------------------------------------------------------------------
(* PaginationManager under any sequence of handle_button and
   update_page_limits calls *)

\* The largest item count passed to update_page_limits.
MaxCount == 7

\* The page sizes the manager is built with.
PageSizes == {1, ITEMS_PER_PAGE}

FIRST_PAGE_ID == "pagination_first"
PREV_PAGE_ID == "pagination_prev"
NEXT_PAGE_ID == "pagination_next"
LAST_PAGE_ID == "pagination_last"

\* The button ids handle_button is called with: the four controls and an id
\* that is none of them.
ButtonIds == {FIRST_PAGE_ID, PREV_PAGE_ID, NEXT_PAGE_ID, LAST_PAGE_ID, "other"}

\* math.ceil(count / items_per_page) for a count >= 0 and a size >= 1.
CeilDiv(count, items_per_page) == (count + items_per_page - 1) \div items_per_page

\* max(1, math.ceil(count / self.items_per_page))
LastPage(count, items_per_page) ==
    IF CeilDiv(count, items_per_page) > 1 THEN CeilDiv(count, items_per_page) ELSE 1

PageInit ==
    /\ now = 0
    /\ cfg = TrackerConfig
    /\ progress_history = << >>
    /\ cleaned = {}
    /\ raised = FALSE
    /\ stuck_downloads = NotRun
    /\ queue = [s \in Services |-> <<>>]
    /\ loaded = [s \in Services |-> FALSE]
    /\ last_refresh = 0
    /\ mode = "async"
    /\ pc = [phase |-> "idle", service |-> "radarr"]
    /\ current_time = 0
    /\ result = [s \in Services |-> Pending]
    /\ streak = [d \in AllDownloadIds |-> 0]
    /\ NoThreads
    /\ monitor = NewMonitor
    /\ client = NewClient
    /\ \E items_per_page \in PageSizes :
          pagination = NewPagination(items_per_page)

PageFrame ==
    /\ UNCHANGED <<now, cfg, progress_history, cleaned, raised, stuck_downloads, queue,
                   loaded, last_refresh, mode, pc, current_time, result, streak,
                   monitor, client>>
    /\ UNCHANGED threads

\* handle_button(button_id) on the manager p: the manager after the call,
\* with changed the value returned.
HandleButtonResult(p, button_id) ==
    CASE button_id = FIRST_PAGE_ID ->
            IF p.movie_current_page # 1 \/ p.tv_current_page # 1
            THEN [p EXCEPT !.movie_current_page = 1, !.tv_current_page = 1, !.changed = TRUE]
            ELSE [p EXCEPT !.changed = FALSE]
      [] button_id = PREV_PAGE_ID ->
            [p EXCEPT !.movie_current_page = IF @ > 1 THEN @ - 1 ELSE @,
                      !.tv_current_page = IF @ > 1 THEN @ - 1 ELSE @,
                      !.changed = p.movie_current_page > 1 \/ p.tv_current_page > 1]
      [] button_id = NEXT_PAGE_ID ->
            [p EXCEPT !.movie_current_page = IF @ < p.last_movie_page THEN @ + 1 ELSE @,
                      !.tv_current_page = IF @ < p.last_tv_page THEN @ + 1 ELSE @,
                      !.changed = \/ p.movie_current_page < p.last_movie_page
                                  \/ p.tv_current_page < p.last_tv_page]
      [] button_id = LAST_PAGE_ID ->
            IF \/ p.movie_current_page # p.last_movie_page
               \/ p.tv_current_page # p.last_tv_page
            THEN [p EXCEPT !.movie_current_page = p.last_movie_page,
                           !.tv_current_page = p.last_tv_page, !.changed = TRUE]
            ELSE [p EXCEPT !.changed = FALSE]
      [] OTHER -> [p EXCEPT !.changed = FALSE]

\* The mutation of UpdateMoviePageLimit that leaves the current page alone.
UpdateMoviePageLimitUnclamped(p, movie_count) ==
    [p EXCEPT !.last_movie_page = LastPage(movie_count, p.items_per_page)]

\* update_movie_page_limit(movie_count)
UpdateMoviePageLimit(p, movie_count) ==
    LET last == LastPage(movie_count, p.items_per_page)
    IN [p EXCEPT !.last_movie_page = last,
                 !.movie_current_page = IF @ > last THEN last ELSE @]

\* update_tv_page_limit(tv_count)
UpdateTvPageLimit(p, tv_count) ==
    LET last == LastPage(tv_count, p.items_per_page)
    IN [p EXCEPT !.last_tv_page = last,
                 !.tv_current_page = IF @ > last THEN last ELSE @]

\* handle_button(button_id)
HandleButton(button_id) ==
    /\ pagination' = [HandleButtonResult(pagination, button_id) EXCEPT !.call = "handle_button"]
    /\ PageFrame

\* update_page_limits(movie_count, tv_count)
UpdatePageLimits(movie_count, tv_count) ==
    /\ pagination' = [UpdateTvPageLimit(UpdateMoviePageLimit(pagination, movie_count), tv_count)
                         EXCEPT !.call = "update_page_limits", !.movie_count = movie_count,
                                !.tv_count = tv_count, !.changed = FALSE]
    /\ PageFrame

PageNext ==
    \/ \E button_id \in ButtonIds : HandleButton(button_id)
    \/ \E movie_count \in 0..MaxCount, tv_count \in 0..MaxCount :
          UpdatePageLimits(movie_count, tv_count)

PageSpec == PageInit /\ [][PageNext]_vars

-----------------------------------------------------------------------------
(* MediaClient._make_request called by several tasks of one event loop *)

\* The request keys (method, url, params, data) the tasks ask for.
RequestKeys == {"GET:queue", "GET:movie/1"}

\* What _execute_request returns: the decoded body, or None after a status
\* other than 200 or a caught exception.
RequestResults == {"data", "none"}

RequestInit ==
    /\ now = 0
    /\ cfg = TrackerConfig
    /\ progress_history = << >>
    /\ cleaned = {}
    /\ raised = FALSE
    /\ stuck_downloads = NotRun
    /\ queue = [s \in Services |-> <<>>]
    /\ loaded = [s \in Services |-> FALSE]
    /\ last_refresh = 0
    /\ mode = "async"
    /\ pc = [phase |-> "idle", service |-> "radarr"]
    /\ current_time = 0
    /\ result = [s \in Services |-> Pending]
    /\ streak = [d \in AllDownloadIds |-> 0]
    /\ NoThreads
    /\ NoComponents

ClientFrame ==
    /\ UNCHANGED <<now, cfg, progress_history, cleaned, raised, stuck_downloads, queue,
                   loaded, last_refresh, mode, pc, current_time, result, streak,
                   monitor, pagination>>
    /\ UNCHANGED threads

\* _make_request up to its first suspension.  When the key is pending the
\* task awaits the stored coroutine object, which the first caller is
\* awaiting: Python raises RuntimeError (coroutine is being awaited
\* already).  Otherwise the coroutine is created, stored under the key and
\* awaited, and runs up to the HTTP request.
MakeRequest(c, request_key) ==
    /\ client.callers[c].phase = "idle"
    /\ IF request_key \in client.pending_requests
       THEN client' = [client EXCEPT !.callers[c] =
                          [phase |-> "returned", key |-> request_key,
                           outcome |-> "RuntimeError", joined |-> TRUE]]
       ELSE client' = [client EXCEPT !.pending_requests = @ \cup {request_key},
                                     !.callers[c] =
                                        [phase |-> "awaiting", key |-> request_key,
                                         outcome |-> "none", joined |-> FALSE]]
    /\ ClientFrame

\* The coroutine of _execute_request ends with its result, or the awaiting
\* task is cancelled; the finally clause pops the key either way.
RequestEnds(c, outcome) ==
    /\ client.callers[c].phase = "awaiting"
    /\ client' = [client EXCEPT !.pending_requests = @ \ {client.callers[c].key},
                                !.callers[c].phase = "returned",
                                !.callers[c].outcome = outcome]
    /\ ClientFrame

\* The task goes on after its call.
Resume(c) ==
    /\ client.callers[c].phase = "returned"
    /\ client' = [client EXCEPT !.callers[c] = NotCalling]
    /\ ClientFrame

RequestNext ==
    \E c \in 1..MaxCallers :
       \/ \E request_key \in RequestKeys : MakeRequest(c, request_key)
       \/ \E outcome \in RequestResults \cup {"CancelledError"} : RequestEnds(c, outcome)
       \/ Resume(c)

RequestSpec == RequestInit /\ [][RequestNext]_vars

-----------------------------------------------------------------------------
(* The metadata cache of a client: get_movie_by_id called at any times.
   get_series_by_id and get_episode_by_id are the same code over
   series_cache and episode_cache. *)

\* MediaClient._cache_ttl, in seconds
_cache_ttl == 300

\* The clock moves by this many seconds between calls, up to MaxCacheTime.
CacheClockStep == 100
MaxCacheTime == 600

MovieIds == {1, 2}

\* dict[key] = value and dict.pop(key, None)
SetItem(dict, key, value) ==
    [k \in DOMAIN dict \cup {key} |-> IF k = key THEN value ELSE dict[k]]

Pop(dict, key) == [k \in DOMAIN dict \ {key} |-> dict[k]]

\* _get_cache_key(endpoint, item_id)
GetCacheKey(service_name, endpoint, item_id) == <<service_name, endpoint, item_id>>

\* _is_cache_valid(cache_key) at time t
IsCacheValid(cl, cache_key, t) ==
    /\ cache_key \in DOMAIN cl.cache_timestamps
    /\ t - cl.cache_timestamps[cache_key] < _cache_ttl

\* _cache_item(cache_key, item) at time t
CacheItem(cl, cache_key, item, t) ==
    [cl EXCEPT !.cache = SetItem(@, cache_key, item),
               !.cache_timestamps = SetItem(@, cache_key, t)]

\* _get_cached_item(cache_key) at time t: the client afterwards and whether
\* an item is returned (None otherwise; the items are non-empty dicts).
GetCachedItem(cl, cache_key, t) ==
    IF IsCacheValid(cl, cache_key, t)
    THEN [client |-> cl, hit |-> cache_key \in DOMAIN cl.cache]
    ELSE [client |-> [cl EXCEPT !.cache_timestamps = Pop(@, cache_key),
                                !.cache = Pop(@, cache_key)],
          hit |-> FALSE]

\* What the get_movie_by_id call returned: the record, the time of the call
\* and whether it asked the service.
MovieReturned(movie_id, data, t, refetched) ==
    [called |-> TRUE, movie_id |-> movie_id, found |-> TRUE, data |-> data, at |-> t,
     refetched |-> refetched]

\* get_movie_by_id(movie_id) at time t; response is what the service
\* answers if asked: the record, stamped here with the time it was fetched
\* at, or nothing (the call then returns {}).
GetMovieByIdResult(cl, movie_id, response, t) ==
    LET cache_key == GetCacheKey("radarr", "movie", movie_id)
        looked    == GetCachedItem(cl, cache_key, t)
        movie_data == [id |-> movie_id, fetched_at |-> t]
    IN IF looked.hit
       THEN [looked.client EXCEPT !.returned = MovieReturned(movie_id, cl.cache[cache_key], t, FALSE)]
       ELSE IF movie_id \in DOMAIN cl.movie_cache
            THEN [CacheItem(looked.client, cache_key, cl.movie_cache[movie_id], t)
                     EXCEPT !.returned = MovieReturned(movie_id, cl.movie_cache[movie_id], t, FALSE)]
            ELSE IF response = "data"
                 THEN [CacheItem([looked.client EXCEPT
                                     !.movie_cache = SetItem(@, movie_id, movie_data)],
                                 cache_key, movie_data, t)
                          EXCEPT !.returned = MovieReturned(movie_id, movie_data, t, TRUE)]
                 ELSE [looked.client EXCEPT
                          !.returned = [called |-> TRUE, movie_id |-> movie_id,
                                        found |-> FALSE, at |-> t, refetched |-> TRUE]]

CacheInit == RequestInit

\* get_movie_by_id(movie_id)
GetMovieById(movie_id, response) ==
    /\ client' = GetMovieByIdResult(client, movie_id, response, now)
    /\ now' = now
    /\ UNCHANGED <<cfg, progress_history, cleaned, raised, stuck_downloads, queue,
                   loaded, last_refresh, mode, pc, current_time, result, streak,
                   monitor, pagination>>
    /\ UNCHANGED threads

\* Time passes between two calls.
CacheElapse ==
    /\ now + CacheClockStep <= MaxCacheTime
    /\ now' = now + CacheClockStep
    /\ UNCHANGED <<cfg, progress_history, cleaned, raised, stuck_downloads, queue,
                   loaded, last_refresh, mode, pc, current_time, result, streak>>
    /\ UNCHANGED threads
    /\ UNCHANGED components

CacheNext ==
    \/ \E movie_id \in MovieIds, response \in RequestResults : GetMovieById(movie_id, response)
    \/ CacheElapse

CacheSpec == CacheInit /\ [][CacheNext]_vars

-----------------------------------------------------------------------------
(* Properties *)

Min(a, b) == IF a < b THEN a ELSE b

\* A step of the refresh cycle that is service s's attempt.
AttemptOf(s) == pc = [phase |-> "refresh", service |-> s]

\* The analyze_stuck_downloads call that just returned reports download d.
Reported(d) == \E info \in stuck_downloads.found : info.download_id = d

\* C1: a record_progress_snapshot call for one source deletes history entries
\* of that source only: every entry a service's attempt removes from the
\* history belongs to that service.
C1_RecordDeletesOwnSourceOnly ==
    [][\A s \in Services :
          AttemptOf(s) =>
             \A d \in DOMAIN progress_history \ DOMAIN progress_history' : d[1] = s]_vars

\* C2: after a cycle, a download that its source listed in each of the last k
\* consecutive cycles that polled both sources successfully has an entry of
\* min(k, max_snapshots_per_download) snapshots; stated for the cycles that
\* all lie within the history window of the current time (the first cycle
\* starts at time RefreshInterval).
C2_HistoryAccumulates ==
    (pc.phase = "sleep" /\ now - cfg.progress_history <= RefreshInterval) =>
        \A d \in AllDownloadIds :
            streak[d] >= 1 =>
                /\ d \in DOMAIN progress_history
                /\ Len(progress_history[d])
                       = Min(streak[d], cfg.max_snapshots_per_download)

\* C3: a download that stays listed as downloading with the same progress and
\* size, first snapshotted at time 0 and snapshotted every refresh interval
\* since, is reported by analyze_stuck_downloads whenever it runs after the
\* download has been tracked for longer than the stuck threshold.
C3_StalledDownloadReported ==
    (stuck_downloads.ran /\ PolledNow /\ now > cfg.stuck_threshold) =>
        Reported(DownloadId("radarr", 1))

\* The two snapshots of C4: at t=0 progress 50 percent with 1000000000 bytes
\* left, at t=130 min progress 50.2 percent with 999900000 bytes left, both
\* downloading.
C4History ==
    << [timestamp |-> 0, progress_percent |-> 500, size_left |-> 1000000000,
        status |-> "downloading"],
       [timestamp |-> 7800, progress_percent |-> 502, size_left |-> 999900000,
        status |-> "downloading"] >>

\* C4: with the default thresholds (120 minutes, 1.0 percent, 104857600
\* bytes), analyze_stuck_downloads run at t=130 min on the download whose only
\* snapshots are those of C4History reports it as stuck.
C4_ConcreteStallReported ==
    (/\ stuck_downloads.ran
     /\ now = 7800
     /\ progress_history = (DownloadId("radarr", 1) :> C4History))
        => Reported(DownloadId("radarr", 1))

\* C5: analyze_stuck_downloads reports a download if and only if at least two
\* of its snapshots have a timestamp >= now - stuck threshold and, for the
\* oldest and the newest of those, the span is >= the threshold, the progress
\* differs by less than min_progress_change, the size left differs by less
\* than min_size_change, and the newest status is downloading or queued.
C5_ReportedIffStalledInWindow ==
    stuck_downloads.ran =>
        \A d \in DOMAIN progress_history :
            LET h == progress_history[d]
                window == { i \in 1..Len(h) : h[i].timestamp >= now - cfg.stuck_threshold }
                oldest == h[CHOOSE i \in window : \A j \in window : i <= j]
                newest == h[CHOOSE i \in window : \A j \in window : i >= j]
            IN Reported(d) <=>
                  /\ Cardinality(window) >= 2
                  /\ newest.timestamp - oldest.timestamp >= cfg.stuck_threshold
                  /\ Abs(newest.progress_percent - oldest.progress_percent)
                         < cfg.min_progress_change
                  /\ Abs(newest.size_left - oldest.size_left) < cfg.min_size_change
                  /\ newest.status \in {"downloading", "queued"}

\* analyze_stuck_downloads has run on a history whose window starts after the
\* first snapshot, and has reported the download.
C5_Witness ==
    /\ stuck_downloads.ran
    /\ Reported(DownloadId("radarr", 1))
    /\ Len(progress_history[DownloadId("radarr", 1)]) = 3
    /\ progress_history[DownloadId("radarr", 1)][1].timestamp < now - cfg.stuck_threshold

\* C6: in a cycle where one service's get_queue_items raises and the
\* other's returns a list, at the end of the cycle the failing service is not
\* loaded, the other is loaded and caches the list it just returned; and no
\* step of the cycle other than a service's own attempt that did not raise
\* changes that service's cached list, so the failing service's list is the
\* one it had before the cycle.
C6_PerSourceIsolation ==
    /\ [](pc.phase = "finish" =>
            \A a \in Services :
                (result[a].kind = "error" /\ Succeeded(result[Other(a)])) =>
                    /\ ~loaded[a]
                    /\ loaded[Other(a)]
                    /\ queue[Other(a)] = result[Other(a)].items)
    /\ [][\A a \in Services :
             (pc.phase = "refresh" /\ (pc.service # a \/ result'[a].kind = "error")) =>
                 queue'[a] = queue[a]]_vars

\* A cycle ends in which radarr raised while it had a list cached and sonarr
\* returned a list with an item.
C6_Witness ==
    /\ pc.phase = "finish"
    /\ result["radarr"].kind = "error"
    /\ queue["radarr"] # <<>>
    /\ Succeeded(result["sonarr"])
    /\ result["sonarr"].items # <<>>

\* C7: whenever a service's attempt ends with its loaded flag forced to False
\* (get_queue_items raised or timed out, or ingesting the list raised), the
\* service's cached list is the one it held before the attempt.
C7_FailedAttemptKeepsCache ==
    [][\A s \in Services :
          (/\ AttemptOf(s)
           /\ ~loaded'[s]
           /\ (result'[s].kind \in {"error", "hang"} \/ raised')) =>
              queue'[s] = queue[s]]_vars

\* C8: a get_queue_items call that never returns does not block the cycle:
\* the loop is not stuck at the call, the hung service is marked not loaded,
\* and the other service, when its own call returns a list, ends the cycle
\* loaded.
C8_HungSourceDoesNotBlock ==
    \A s \in Services :
        result[s].kind = "hang" =>
            /\ pc.phase # "blocked"
            /\ ~loaded[s]
            /\ (pc.phase = "finish" /\ Succeeded(result[Other(s)])) => loaded[Other(s)]

\* C9: after any sequence of record_progress_snapshot calls every history
\* entry holds at most max_snapshots_per_download snapshots.
C9_BoundedHistory ==
    \A d \in DOMAIN progress_history :
        Len(progress_history[d]) <= cfg.max_snapshots_per_download

\* Record calls at more than one time have filled an entry up to
\* max_snapshots_per_download.
C9_Witness ==
    \E d \in DOMAIN progress_history :
        /\ Len(progress_history[d]) = cfg.max_snapshots_per_download
        /\ progress_history[d][1].timestamp < now
        /\ progress_history[d][1].timestamp
               < progress_history[d][Len(progress_history[d])].timestamp

C11_CacheReplacedBeforeRecord ==
    (handle = 1 /\ loops[1].active # {}) => queue[loops[1].service] = loops[1].batch

\* The refresh thread is inside record_progress_snapshot's loop with a
\* snapshot of a two-item batch appended.
C11_Witness ==
    /\ handle = 1
    /\ loops[1].phase = "record"
    /\ loops[1].k = 2
    /\ Len(loops[1].batch) = 2
    /\ queue[loops[1].service] = loops[1].batch
    /\ DownloadId(loops[1].service, 1) \in DOMAIN progress_history

\* C12: a get_movie_queue / get_tv_queue call running while the same service
\* is refreshed returns exactly the list cached when the call started or
\* exactly the list cached when it returns, never a mixture.
C12_ReaderSeesWholeList ==
    (caller.op = "read" /\ caller.phase = "returned") =>
        caller.copy \in {caller.before, caller.after}

\* A read returned a non-empty list while the refresh thread stood at the
\* assignment of a different list for the same service.
C12_Witness ==
    /\ caller.op = "read"
    /\ caller.phase = "returned"
    /\ caller.copy # <<>>
    /\ handle = 1
    /\ loops[1].phase = "assign"
    /\ loops[1].service = caller.service
    /\ loops[1].batch # caller.copy

\* C13: an analyze_stuck_downloads call interleaved with a
\* record_progress_snapshot call of another thread completes without raising:
\* its iteration never finds the history dict changed in size.
C13_AnalyzeNeverRaises ==
    caller.op = "analyze" => caller.phase # "raised"

\* C14: a call of refresh_data is skipped (it issues no get_queue_items call
\* and leaves last_refresh, the caches and the flags alone) if and only if
\* now - last_refresh < refresh interval and both services are loaded;
\* otherwise the cycle begins, so it is never skipped while a service is not
\* loaded.
C14_SkipIffRecentAndReady ==
    [][pc.phase = "idle" =>
          LET skipped == /\ pc'.phase = "skipped"
                         /\ UNCHANGED <<last_refresh, queue, loaded, result, progress_history>>
              begun   == pc' = [phase |-> "refresh", service |-> "radarr"]
          IN /\ skipped <=> (/\ now - last_refresh < RefreshInterval
                             /\ loaded["radarr"]
                             /\ loaded["sonarr"])
             /\ skipped \/ begun]_vars

\* A call has just been skipped.
C14_Witness ==
    /\ pc.phase = "skipped"
    /\ now - last_refresh < RefreshInterval
    /\ loaded["radarr"]
    /\ loaded["sonarr"]


\* C15: once stop_background_refresh has been called, no loop begins a new
\* refresh cycle: no loop passes from the call of refresh_data to its first
\* get_queue_items.
C15_NoCycleAfterStop ==
    [][caller.stopped =>
          \A i \in 1..MaxLoops :
             ~(loops[i].phase = "call" /\ loops'[i].phase = "fetch")]_vars

\* C16: an update that has replaced the cache and recorded the list, and
\* waits in get_download_updates, is only left by setting the flag of its
\* source.
C16_UpdateAlwaysCompleted ==
    [][\A i \in 1..MaxLoops :
          (loops[i].phase = "updates" /\ loops'[i].phase # "updates")
             => loaded'[loops[i].service]]_vars

\* C17: stop_background_refresh always returns: a caller in the join leaves
\* it, also when the loop is in a call that never returns.
C17_StopReturns == (caller.op = "join") ~> (caller.op = "none")

C17_Witness ==
    /\ caller.op = "none"
    /\ caller.stopped
    /\ handle # 0
    /\ loops[handle].phase = "blocked"

C19_RetriedUntilRecovered ==
    [][/\ (pc.phase = "idle" /\ \E s \in Services : ~loaded[s])
             => pc' = [phase |-> "refresh", service |-> "radarr"]
       /\ \A s \in Services :
             AttemptOf(s) =>
                /\ pc' = AfterService(s)
                /\ result'[s].kind \in {"error", "hang"} => ~loaded'[s]
                /\ Succeeded(result'[s]) =>
                      (loaded'[s] /\ queue'[s] = result'[s].items)]_vars


\* C20: the step that ends a cycle that was not skipped sets last_refresh to
\* the time the cycle began at, never an earlier time than it held, also
\* when both services failed; no other step, the early return of a skipped
\* cycle included, changes last_refresh.
C20_LastRefreshAdvances ==
    [][/\ pc.phase = "finish" =>
             (last_refresh' = current_time /\ last_refresh' >= last_refresh)
       /\ pc.phase # "finish" => last_refresh' = last_refresh]_vars

C20_Witness ==
    /\ pc.phase = "sleep"
    /\ ~loaded["radarr"]
    /\ ~loaded["sonarr"]
    /\ now > RefreshInterval
    /\ last_refresh = now


\* The snapshot record_progress_snapshot appended for every item of the list
\* is the newest of the item's entry.
Recorded(history, items, service_type, t) ==
    \A k \in 1..Len(items) :
       LET d == DownloadId(service_type, ItemGet(items[k], "id", 0))
       IN /\ d \in DOMAIN history
          /\ history[d] # <<>>
          /\ history[d][Len(history[d])].timestamp = t

\* C21: when get_download_updates raises or times out after get_queue_items
\* returned a list, the service ends its update loaded, its cache is the
\* fetched list, the list's snapshots are in the history, and the loop goes
\* on to the other service or to the end of the cycle.
C21_UpdatesFailureIgnored ==
    [][\A i \in 1..MaxLoops :
          (/\ loops[i].phase = "updates"
           /\ loops'[i].phase \notin {"updates", "dead"}
           /\ loops'[i].updates \in {"error", "timeout"})
             => /\ loaded'[loops[i].service]
                /\ queue'[loops[i].service] = loops[i].batch
                /\ Recorded(progress_history', loops[i].batch, loops[i].service, now)
                /\ loops'[i].phase = IF loops[i].service = "radarr" THEN "fetch" ELSE "finish"
                /\ loops[i].service = "radarr" => loops'[i].service = "sonarr"]_vars

C21_Witness ==
    /\ handle # 0
    /\ loops[handle].phase = "fetch"
    /\ loops[handle].service = "sonarr"
    /\ loops[handle].updates = "timeout"
    /\ loaded["radarr"]
    /\ queue["radarr"] = <<ItemStalled>>


\* C22: analyze_stuck_downloads never reports a download whose entry holds
\* exactly one snapshot, whatever the clock and the threshold.
C22_OneSnapshotNeverReported ==
    stuck_downloads.ran =>
       \A d \in DOMAIN progress_history :
          Len(progress_history[d]) = 1 => ~Reported(d)

C22_Witness ==
    /\ stuck_downloads.ran
    /\ cfg.stuck_threshold = 0
    /\ \E d \in DOMAIN progress_history :
          /\ Len(progress_history[d]) = 1
          /\ progress_history[d][1].status = "downloading"
          /\ progress_history[d][1].timestamp = now


\* The snapshots of an entry that lie in the threshold window at time t.
InWindow(snapshots, t, c) ==
    LET Recent(x) == x.timestamp >= t - c.stuck_threshold
    IN SelectSeq(snapshots, Recent)

\* The download of the example: 1000000000 bytes left at 0, 400000000 at 130
\* minutes.
C23History ==
    << [timestamp |-> 0, progress_percent |-> 500, size_left |-> 1000000000,
        status |-> "downloading"],
       [timestamp |-> 7800, progress_percent |-> 500, size_left |-> 400000000,
        status |-> "downloading"] >>

\* C23: a download whose size_left changed by at least min_size_change, or
\* whose progress changed by at least min_progress_change, between the oldest
\* and the newest snapshot of the threshold window is not reported; so the
\* download of the example is not reported.
C23_ProgressingNotReported ==
    stuck_downloads.ran =>
       \A d \in DOMAIN progress_history :
          LET w == InWindow(progress_history[d], now, cfg)
          IN /\ (/\ w # <<>>
                 /\ \/ Abs(w[1].size_left - w[Len(w)].size_left) >= cfg.min_size_change
                    \/ Abs(w[Len(w)].progress_percent - w[1].progress_percent)
                          >= cfg.min_progress_change)
                   => ~Reported(d)
             /\ progress_history[d] = C23History => ~Reported(d)

C23_Witness ==
    /\ stuck_downloads.ran
    /\ \E d \in DOMAIN progress_history :
          LET w == InWindow(progress_history[d], now, cfg)
          IN /\ Len(w) >= 2
             /\ w[Len(w)].timestamp - w[1].timestamp >= cfg.stuck_threshold
             /\ w[Len(w)].status = "downloading"
             /\ w[Len(w)].progress_percent = w[1].progress_percent
             /\ w[1].size_left - w[Len(w)].size_left = cfg.min_size_change
             /\ ~Reported(d)


\* after is the end of before extended by snapshots taken at time t.
NewestOf(before, after, t) ==
    \E k \in 1..Len(after) :
       /\ \A j \in (Len(after) - k + 1)..Len(after) : after[j].timestamp = t
       /\ Len(after) - k <= Len(before)
       /\ \A j \in 1..(Len(after) - k) :
             after[j] = before[Len(before) - (Len(after) - k) + j]

C25_Chronological ==
    \A d \in DOMAIN progress_history :
       \A j \in 1..(Len(progress_history[d]) - 1) :
          progress_history[d][j].timestamp <= progress_history[d][j + 1].timestamp


\* The item has every required field.
HasRequired(item) == RequiredFields \subseteq DOMAIN item

\* The record_progress_snapshot call of this step is the one for service s.
RecordedNow(s) == ~loaded[s] /\ loaded'[s]

\* C26: an item of the list that lacks a required field gets no snapshot and
\* every item that has them all gets its own: after the call the entries of
\* the service are those of the ids of the complete items, and the snapshots
\* taken by the call are those of the complete items.
C26_MalformedItemSkipped ==
    [][\A s \in Services :
          RecordedNow(s) =>
             LET complete == { k \in 1..Len(queue[s]) : HasRequired(queue[s][k]) }
             IN /\ { d \in DOMAIN progress_history' : d[1] = s }
                      = { DownloadId(s, queue[s][k].id) : k \in complete }
                /\ \A d \in DOMAIN progress_history' :
                      d[1] = s =>
                         { progress_history'[d][j] : j \in 1..Len(progress_history'[d]) }
                            = { ProgressSnapshot(queue[s][k], now) :
                                   k \in { c \in complete : queue[s][c].id = d[2] } }]_vars

\* C27: when the list holds two items with the same id (all items having
\* every required field), the call adds exactly one snapshot to the entry of
\* that id, and the snapshot is that of the later item.
C27_DuplicateIdLastWins ==
    [][\A s \in Services :
          (/\ RecordedNow(s)
           /\ Len(queue[s]) = 2
           /\ HasRequired(queue[s][1])
           /\ HasRequired(queue[s][2])
           /\ queue[s][1].id = queue[s][2].id)
             => LET d      == DownloadId(s, queue[s][2].id)
                    before == IF d \in DOMAIN progress_history
                              THEN progress_history[d] ELSE <<>>
                IN /\ d \in DOMAIN progress_history'
                   /\ progress_history'[d]
                         = Append(before, ProgressSnapshot(queue[s][2], now))]_vars


\* The consecutive pairs of snapshots, as <<download id, index of the later
\* snapshot>>, with a positive time difference and a decreasing size_left.
SpeedPairs(history) ==
    { p \in UNION { {d} \X (2..Len(history[d])) : d \in DOMAIN history } :
         /\ history[p[1]][p[2]].timestamp > history[p[1]][p[2] - 1].timestamp
         /\ history[p[1]][p[2]].size_left < history[p[1]][p[2] - 1].size_left }

\* The bytes and the seconds of pair p.
PairSpeed(history, p) ==
    [bytes   |-> history[p[1]][p[2] - 1].size_left - history[p[1]][p[2]].size_left,
     seconds |-> history[p[1]][p[2]].timestamp - history[p[1]][p[2] - 1].timestamp]

\* C28: _calculate_download_speeds yields exactly one sample for each
\* consecutive pair of a download's snapshots with a positive time
\* difference and a decreasing size_left, no other sample, and every sample
\* is above 0.
C28_OneSamplePerPair ==
    caller.op = "statistics" =>
       LET speeds == caller.speeds
           pairs  == SpeedPairs(progress_history)
       IN /\ Len(speeds) = Cardinality(pairs)
          /\ \A j \in 1..Len(speeds) : speeds[j].bytes > 0 /\ speeds[j].seconds > 0
          /\ \A p \in pairs :
                Cardinality({ j \in 1..Len(speeds) : speeds[j] = PairSpeed(progress_history, p) })
                   = Cardinality({ q \in pairs :
                                      PairSpeed(progress_history, q) = PairSpeed(progress_history, p) })

C28_Witness ==
    /\ caller.op = "statistics"
    /\ Len(caller.speeds) = 2
    /\ \E d \in DOMAIN progress_history :
          \E i \in 2..Len(progress_history[d]) :
             progress_history[d][i].size_left > progress_history[d][i - 1].size_left
    /\ \E d \in DOMAIN progress_history :
          \E i \in 2..Len(progress_history[d]) :
             progress_history[d][i].timestamp = progress_history[d][i - 1].timestamp

\* C29: get_statistics reports the number of entries and the sum of their
\* lengths; the two speeds are 0 when no consecutive pair with a decreasing
\* size_left and a positive time difference exists, every field is 0 for the
\* empty history, and the minimum speed is never above the maximum.
C29_StatisticsTotals ==
    caller.op = "statistics" =>
       LET stats == caller.stats
       IN /\ stats.total_downloads = Cardinality(DOMAIN progress_history)
          /\ stats.total_snapshots
                = Cardinality(UNION { {d} \X (1..Len(progress_history[d])) :
                                         d \in DOMAIN progress_history })
          /\ SpeedPairs(progress_history) = {} =>
                (stats.min_download_speed_mbps = 0 /\ stats.max_download_speed_mbps = 0)
          /\ progress_history = << >> =>
                \A field \in DOMAIN stats : stats[field] = 0
          /\ stats.min_download_speed_mbps <= stats.max_download_speed_mbps

C29_Witness ==
    /\ caller.op = "statistics"
    /\ caller.stats.total_downloads = 2
    /\ caller.stats.total_snapshots = 4
    /\ caller.stats.min_download_speed_mbps = 10
    /\ caller.stats.max_download_speed_mbps = 20


\* C30: appending to or removing from a list get_movie_queue / get_tv_queue
\* returned changes neither the cached list nor any other returned list, and
\* a call made after such a change returns the cached list as it was.
C30_ReturnedListsAreCopies ==
    [][(caller # NoCall /\ caller.op = "hold" /\ caller' # NoCall) =>
          /\ Len(caller'.lists) = Len(caller.lists) =>
                /\ queue' = queue
                /\ Cardinality({ k \in 1..Len(caller.lists) :
                                    caller'.lists[k].items # caller.lists[k].items }) <= 1
          /\ Len(caller'.lists) > Len(caller.lists) =>
                caller'.lists[Len(caller'.lists)].items = queue[caller.service]]_vars

C30_Witness ==
    /\ caller # NoCall
    /\ caller.op = "hold"
    /\ Len(caller.lists) = 2
    /\ queue[caller.service] # <<>>
    /\ caller.lists[1].items = Append(queue[caller.service], ItemDone)
    /\ caller.lists[2].items = queue[caller.service]


\* C31: record_progress_snapshot does not raise on items that have an id but
\* lack progress, sizeleft or status: every such item gets a snapshot in the
\* entry of its id, with progress 0, size_left 0 and status 'unknown' in
\* place of the absent field.
C31_MissingFieldsDefaulted ==
    [][\A s \in Services :
          (/\ ~loaded[s]
           /\ loaded'[s] \/ raised'
           /\ \A k \in 1..Len(queue[s]) : "id" \in DOMAIN queue[s][k])
             => /\ ~raised'
                /\ \A k \in 1..Len(queue[s]) :
                      LET item == queue[s][k]
                          d    == DownloadId(s, item.id)
                      IN /\ d \in DOMAIN progress_history'
                         /\ \E j \in 1..Len(progress_history'[d]) :
                               progress_history'[d][j] =
                                  [timestamp        |-> now,
                                   progress_percent |-> IF "progress" \in DOMAIN item
                                                        THEN item.progress ELSE 0,
                                   size_left        |-> IF "sizeleft" \in DOMAIN item
                                                        THEN item.sizeleft ELSE 0,
                                   status           |-> IF "status" \in DOMAIN item
                                                        THEN item.status ELSE "unknown"]]_vars

C31_Witness ==
    /\ loaded["radarr"]
    /\ ~raised
    /\ Len(queue["radarr"]) = 2
    /\ "status" \notin DOMAIN queue["radarr"][1]
    /\ "sizeleft" \notin DOMAIN queue["radarr"][2]
    /\ queue["radarr"][1].id # queue["radarr"][2].id
    /\ \A k \in 1..2 : DownloadId("radarr", queue["radarr"][k].id) \in DOMAIN progress_history
    /\ progress_history[DownloadId("radarr", queue["radarr"][1].id)][1].status = "unknown"
    /\ progress_history[DownloadId("radarr", queue["radarr"][2].id)][1].size_left = 0


\* C32: for every download analyze_stuck_downloads reports, the reported
\* duration (stuck_duration_minutes, here in clock units) is the span between
\* the oldest and the newest snapshot of the threshold window, and so is
\* never above the threshold, however old the entry's first snapshot is.
C32_DurationCappedByWindow ==
    stuck_downloads.ran =>
       \A info \in stuck_downloads.found :
          LET w == InWindow(progress_history[info.download_id], now, cfg)
          IN /\ Len(w) >= 2
             /\ info.stuck_duration = w[Len(w)].timestamp - w[1].timestamp
             /\ info.stuck_duration <= cfg.stuck_threshold

C32_Witness ==
    /\ stuck_downloads.ran
    /\ \E info \in stuck_downloads.found :
          LET h == progress_history[info.download_id]
          IN /\ info.stuck_duration = cfg.stuck_threshold
             /\ h[1].timestamp < now - cfg.stuck_threshold
             /\ h[1].size_left = h[Len(h)].size_left
             /\ h[1].progress_percent = h[Len(h)].progress_percent

\* C33: the thread-based and the asyncio-based refresh are equivalent: given
\* the same outcomes for each source, both managers end every cycle with the
\* same ready flags, the same cached lists and the same history.
C33_PathsEquivalent ==
    pc.phase = "finish"
       => handle = [loaded |-> loaded, queue |-> queue, history |-> progress_history]

\* C34: restart works: whenever start_background_refresh returns, _running
\* is set and the loop the manager holds is alive (it will go on performing
\* refresh cycles), also when the call follows a stop_background_refresh
\* whose loop has not ended yet.
C34_RestartWorks ==
    [][Start => /\ running'
                /\ handle' # 0
                /\ Alive(loops'[handle'])]_vars

\* C37: no history entry is ever empty: after any sequence of
\* record_progress_snapshot calls, whatever their lists and services and
\* whether they return or raise, every download id in the history has at
\* least one snapshot.
C37_NoEmptyEntry ==
    \A d \in DOMAIN progress_history : Len(progress_history[d]) >= 1

C37_Witness ==
    /\ cleaned # {}
    /\ \E d \in DOMAIN progress_history :
          /\ Len(progress_history[d]) = 2
          /\ progress_history[d][1].timestamp < now - cfg.progress_history
          /\ progress_history[d][2].timestamp = now

\* C35: a stop() on a running monitor leaves the background refresh stopped,
\* the monitor task and the health task cancelled, both client sessions
\* closed and _running false.
C35_StopStopsEverything ==
    [][(monitor.running /\ ~monitor'.running)
          => /\ ~running'
             /\ monitor'.task \in {"none", "cancelled"}
             /\ monitor'.health_task \in {"none", "cancelled"}
             /\ monitor'.closed = Services]_vars

\* C36: _running is true only while the background refresh, the monitor
\* loop and the health loop have been started, so that a start() that
\* returned for want of a channel does not keep a later start() from
\* starting them.
C36_RunningMeansStarted ==
    monitor.running
       => /\ handle # 0
          /\ monitor.task # "none"
          /\ monitor.health_task # "none"

\* C38: after any handle_button or update_page_limits call both current
\* pages lie between 1 and their last page, each last page is
\* max(1, ceil(count / items_per_page)) of the count last given, and
\* handle_button returns True exactly when it changed a current page.
C38_PageBounds ==
    [][LET p == pagination'
       IN /\ 1 <= p.movie_current_page
          /\ p.movie_current_page <= p.last_movie_page
          /\ 1 <= p.tv_current_page
          /\ p.tv_current_page <= p.last_tv_page
          /\ \A n \in 1..(MaxCount + 1) :
                /\ p.last_movie_page = n
                      <=> \/ n = 1 /\ p.movie_count <= p.items_per_page
                          \/ /\ n > 1
                             /\ (n - 1) * p.items_per_page < p.movie_count
                             /\ p.movie_count <= n * p.items_per_page
                /\ p.last_tv_page = n
                      <=> \/ n = 1 /\ p.tv_count <= p.items_per_page
                          \/ /\ n > 1
                             /\ (n - 1) * p.items_per_page < p.tv_count
                             /\ p.tv_count <= n * p.items_per_page
          /\ p.call = "handle_button"
                => (p.changed <=> \/ p.movie_current_page # pagination.movie_current_page
                                  \/ p.tv_current_page # pagination.tv_current_page)]_vars

C38_Witness ==
    /\ pagination.call = "handle_button"
    /\ pagination.changed
    /\ pagination.items_per_page = ITEMS_PER_PAGE
    /\ pagination.movie_count = 7
    /\ pagination.movie_current_page = 3
    /\ pagination.last_movie_page = 3
    /\ pagination.tv_count = 3
    /\ pagination.tv_current_page = 1
    /\ pagination.last_tv_page = 1

\* C39: requests are deduplicated: a task that asks for a request that is
\* pending receives that request's result, at most one HTTP request per key
\* is in flight, and a key is pending exactly while its request is.
C39_RequestsDeduplicated ==
    /\ \A c \in 1..MaxCallers :
          (client.callers[c].joined /\ client.callers[c].phase = "returned")
             => client.callers[c].outcome \in RequestResults
    /\ \A k \in RequestKeys :
          /\ Cardinality({c \in 1..MaxCallers :
                            /\ client.callers[c].phase = "awaiting"
                            /\ ~client.callers[c].joined
                            /\ client.callers[c].key = k}) <= 1
          /\ k \in client.pending_requests
                <=> \E c \in 1..MaxCallers :
                       client.callers[c].phase = "awaiting" /\ client.callers[c].key = k

\* C40: the metadata cache expires: no call returns a record that was
\* fetched more than _cache_ttl seconds before the call, an entry that a
\* lookup leaves in the cache is younger than the TTL, and _cache and
\* _cache_timestamps have the same keys.
C40_NoStaleRecord ==
    /\ (client.returned.called /\ client.returned.found)
          => client.returned.at - client.returned.data.fetched_at <= _cache_ttl
    /\ DOMAIN client.cache = DOMAIN client.cache_timestamps
    /\ client.returned.called
          => \A k \in DOMAIN client.cache_timestamps :
                k[3] = client.returned.movie_id
                   => client.returned.at - client.cache_timestamps[k] < _cache_ttl

====
